---- MODULE Spec2Model ----
(***************************************************************************)
(* Model of codet's CodeTrailExecutor (src/codet/codet.py): the commit     *)
(* filter cook(), the hotspot counter hotspot() and its tier function      *)
(* get_color_by_count().                                                   *)
(*                                                                         *)
(* Python strings are sequences of one-character strings, so that          *)
(* equality, substring containment, lower-casing and concatenation are     *)
(* computed as Python computes them.  An OrderedDict / dict is a sequence  *)
(* of key-value entries in insertion order.                                *)
(***************************************************************************)
EXTENDS Integers, Sequences, FiniteSets, TLC

\* ------------------------------------------------------------------------
\* Bounds of the model
\* ------------------------------------------------------------------------
\* commits per repository in a raw table
MaxCommits == 2
\* largest change count / max_count given to get_color_by_count
MaxCount == 12
\* commits on one file in the long histories given to hotspot()
MaxBulk == 7
\* the instants of the clock are 0..MaxClock, TicksPerSecond of them a second
MaxClock == 3
TicksPerSecond == 2
\* calls of generate_report() in one run of the model
MaxRuns == 2
\* the row indices of a clicked cell are 0..MaxRow
MaxRow == 2

\* ------------------------------------------------------------------------
\* Python str operations
\* ------------------------------------------------------------------------
UpperChars == <<"A","B","C","D","E","F","G","H","I","J","K","L","M",
                "N","O","P","Q","R","S","T","U","V","W","X","Y","Z">>
LowerChars == <<"a","b","c","d","e","f","g","h","i","j","k","l","m",
                "n","o","p","q","r","s","t","u","v","w","x","y","z">>

\* the lower-case letter of every upper-case letter
UpperToLower ==
    [ch \in {UpperChars[i] : i \in 1..Len(UpperChars)} |->
        LowerChars[CHOOSE i \in 1..Len(UpperChars) : UpperChars[i] = ch]]

\* str.lower() on one ASCII character
LowerChar(ch) == IF ch \in DOMAIN UpperToLower THEN UpperToLower[ch] ELSE ch

\* str.lower()
Lower(s) == [i \in 1..Len(s) |-> LowerChar(s[i])]

\* Python "sub in s" on strings: contiguous substring, "" is in every string
StrIn(sub, s) ==
    \E i \in 0..(Len(s) - Len(sub)) : SubSeq(s, i + 1, i + Len(sub)) = sub

\* Python "x in lst" on a list: element equality
ListIn(x, lst) == \E i \in 1..Len(lst) : lst[i] = x

\* dict.get(key, default)
Get(d, key, default) == IF key \in DOMAIN d THEN d[key] ELSE default

\* ------------------------------------------------------------------------
\* Input values: strings, commit records, argument lists, raw tables
\* ------------------------------------------------------------------------
S_a_x_com == <<"a","@","x",".","c","o","m">>
S_b_x_com == <<"b","@","x",".","c","o","m">>
S_A_x_com == <<"A","@","x",".","c","o","m">>
S_x_com == <<"x",".","c","o","m">>
S_al == <<"a","l">>
S_bob == <<"b","o","b">>
S_alan == <<"a","l","a","n">>
S_fix_bug == <<"f","i","x"," ","b","u","g">>
S_refactor == <<"r","e","f","a","c","t","o","r">>
S_Bu == <<"B","u">>
S_G == <<"G">>
S_bug == <<"b","u","g">>
S_FIX == <<"F","I","X">>
S_src_a_py == <<"s","r","c","/","a",".","p","y">>
S_docs_readme_md == <<"d","o","c","s","/","r","e","a","d","m","e",".","m","d">>
S_a_py == <<"a",".","p","y">>
S_date == <<"2","0","2","5">>
S_url == <<"u">>
RepoA == <<"r","e","p","o","A">>
RepoB == <<"r","e","p","o","B">>

\* the records the Repository Source hands out (GitAnalyzer.get_all_commits)
Commit1 ==
    [commit_email |-> S_a_x_com, commit_author |-> S_al,
     commit_summary |-> S_fix_bug, commit_message |-> S_fix_bug,
     commit_diff_text |-> <<>>, commit_changed_files |-> <<S_src_a_py>>,
     commit_date |-> S_date, commit_url |-> S_url]
Commit2 ==
    [commit_email |-> S_b_x_com, commit_author |-> S_bob,
     commit_summary |-> S_refactor, commit_message |-> S_refactor,
     commit_diff_text |-> <<>>,
     commit_changed_files |-> <<S_src_a_py, S_docs_readme_md>>,
     commit_date |-> S_date, commit_url |-> <<>>]
Commit3 ==
    [commit_email |-> S_A_x_com, commit_author |-> S_alan,
     commit_summary |-> S_Bu, commit_message |-> S_Bu,
     commit_diff_text |-> S_G, commit_changed_files |-> <<S_a_py>>,
     commit_date |-> S_date, commit_url |-> S_url]
CommitPool == {Commit1, Commit2, Commit3}

\* args.email, args.user, args.keyword, args.mode, args.hotspot, args.recursive
EmailLists == {<<>>, <<S_a_x_com>>, <<S_x_com>>, <<S_a_x_com, S_x_com>>}
UserLists == {<<>>, <<S_al>>}
KeywordLists == {<<>>, <<S_bug>>, <<S_FIX>>, <<S_bug, S_FIX>>}
Modes == {"union", "intersection"}
ArgsSet ==
    [email : EmailLists, user : UserLists, keyword : KeywordLists,
     mode : Modes, hotspot : BOOLEAN, recursive : {FALSE}]

\* the hash of the i-th commit of a repository: "h1", "h2", ...
Hash(i) == <<"h", i>>

\* one repository's ordered mapping hash -> record
CommitDicts ==
    UNION {{[i \in 1..n |-> [hash |-> Hash(i), data |-> cs[i]]] :
            cs \in [1..n -> CommitPool]} : n \in 0..MaxCommits}

\* the tables get_all_commits can return: repoA and/or repoB, or none
RawTables ==
    {<<>>}
    \cup {<<[name |-> RepoA, commits |-> a]>> : a \in CommitDicts}
    \cup {<<[name |-> RepoB, commits |-> b]>> : b \in CommitDicts}
    \cup {<<[name |-> RepoA, commits |-> a], [name |-> RepoB, commits |-> b]>> :
          a \in CommitDicts, b \in CommitDicts}

\* OrderedDict()
EmptyTable == <<>>

\* ------------------------------------------------------------------------
\* State
\* ------------------------------------------------------------------------
VARIABLES
    args,            \* self.args
    git_analyzer,    \* self.git_analyzer
    raw_commits,     \* self.raw_commits
    cooked_commits,  \* self.cooked_commits
    hotspots,        \* hotspot(): path -> change count, in first-seen order
    file_repos,      \* hotspot(): path -> owning repository
    dir_files,       \* hotspot(): group key -> files of the group
    table_rows,      \* hotspot(): the rows added to the printed table
    pc,              \* the last operation that ran
    returned,        \* what the last operation returned
    raised,          \* the exception the last operation let out, or NoError
    logged,          \* the logger calls of the last operation: <<level, text>>
    git_dirs,        \* the file system: the directories that hold a .git entry
    source,          \* the Repository Source: whether its calls raise
    disk,            \* the working directory: "ok", "open_fails" or "write_fails"
    count_in,        \* get_color_by_count: the arguments of two calls
    color_out,       \* get_color_by_count: the two results
    clock,           \* datetime.now(), in ticks
    cwd_files,       \* the working directory: file name -> content
    reports,         \* what each call of generate_report() wrote, in call order
    is_open,         \* dashboard: detail-modal.is_open
    modal_content,   \* dashboard: modal-content.children
    modal_title,     \* dashboard: modal-title.children
    last_event       \* dashboard: trigger and inputs of the last toggle_modal call

vars == <<args, git_analyzer, raw_commits, cooked_commits, hotspots, file_repos,
          dir_files, table_rows, pc, returned, raised, logged, git_dirs, source, disk,
          count_in, color_out, clock, cwd_files, reports, is_open, modal_content,
          modal_title, last_event>>

\* the surroundings of the executor, which no operation changes
envVars == <<args, git_dirs, source, disk>>
\* the results of hotspot()
hotVars == <<hotspots, file_repos, dir_files, table_rows>>
\* the calls of get_color_by_count on its own
tierVars == <<count_in, color_out>>
\* the clock, the working directory and the calls of generate_report()
reportVars == <<clock, cwd_files, reports>>
\* the detail modal of the dashboard
dashVars == <<is_open, modal_content, modal_title, last_event>>

\* ------------------------------------------------------------------------
\* Ordered dictionaries
\* ------------------------------------------------------------------------
\* repo_name in table
TableHas(table, name) == \E i \in 1..Len(table) : table[i].name = name

\* table[repo_name]
TableGet(table, name) ==
    table[CHOOSE i \in 1..Len(table) : table[i].name = name].commits

\* table[repo_name] = commits: a present key keeps its position
TablePut(table, name, commits) ==
    IF TableHas(table, name)
    THEN [i \in 1..Len(table) |->
            IF table[i].name = name
            THEN [name |-> name, commits |-> commits] ELSE table[i]]
    ELSE Append(table, [name |-> name, commits |-> commits])

\* a mutant of CommitPut: the new entry goes to the front
CommitPutFront(dict, hash, data) ==
    IF \E i \in 1..Len(dict) : dict[i].hash = hash
    THEN [i \in 1..Len(dict) |->
            IF dict[i].hash = hash
            THEN [hash |-> hash, data |-> data] ELSE dict[i]]
    ELSE <<[hash |-> hash, data |-> data]>> \o dict

\* a mutant of CommitPut: the record is stored without its diff text
CommitPutStripped(dict, hash, data) ==
    Append(dict, [hash |-> hash, data |-> [data EXCEPT !.commit_diff_text = <<>>]])

\* commits[commit_hash] = commit_data
CommitPut(dict, hash, data) ==
    IF \E i \in 1..Len(dict) : dict[i].hash = hash
    THEN [i \in 1..Len(dict) |->
            IF dict[i].hash = hash
            THEN [hash |-> hash, data |-> data] ELSE dict[i]]
    ELSE Append(dict, [hash |-> hash, data |-> data])

\* ------------------------------------------------------------------------
\* cook(): the filter
\* ------------------------------------------------------------------------
\* a mutant of NoFilters: the "no filters specified" shortcut is missing
NoFiltersNever(a) == FALSE

\* "not self.args.email or len(self.args.email) == 0", for all three lists
NoFilters(a) ==
    /\ Len(a.email) = 0
    /\ Len(a.user) = 0
    /\ Len(a.keyword) = 0

\* a mutant of CommitText: a record without commit_message is searched in
\* its commit_summary
CommitTextSummary(data) ==
    Get(data, "commit_message", Get(data, "commit_summary", <<>>))
    \o Get(data, "commit_diff_text", <<>>)

\* commit_data.get("commit_message", "") + commit_data.get("commit_diff_text", "")
CommitText(data) ==
    Get(data, "commit_message", <<>>) \o Get(data, "commit_diff_text", <<>>)

\* a mutant of UnionEmailMatch: containment in the author email, as the
\* intersection branch does it
UnionEmailMatchSubstring(data, a) ==
    /\ Len(a.email) > 0
    /\ \E i \in 1..Len(a.email) : StrIn(a.email[i], data["commit_email"])

\* union: commit_data["commit_email"] in self.args.email
UnionEmailMatch(data, a) ==
    /\ Len(a.email) > 0
    /\ ListIn(data["commit_email"], a.email)

\* union: commit_data["commit_author"] in self.args.user
UnionUserMatch(data, a) ==
    /\ Len(a.user) > 0
    /\ ListIn(data["commit_author"], a.user)

\* union: some keyword.lower() in commit_text.lower()
UnionKeywordMatch(data, a) ==
    /\ Len(a.keyword) > 0
    /\ \E i \in 1..Len(a.keyword) :
          StrIn(Lower(a.keyword[i]), Lower(CommitText(data)))

\* union mode: should_include after the three checks, each later check
\* made only while should_include is still False
UnionInclude(data, a) ==
    LET byEmail == UnionEmailMatch(data, a)
        byUser == ~byEmail /\ UnionUserMatch(data, a)
        byKeyword == ~byEmail /\ ~byUser /\ UnionKeywordMatch(data, a)
    IN  byEmail \/ byUser \/ byKeyword

\* a mutant of IntersectionEmailMatch: equality, as the union branch does it
IntersectionEmailMatchEqual(data, a) ==
    Len(a.email) > 0 =>
        \A i \in 1..Len(a.email) : a.email[i] = data["commit_email"]

\* intersection: no email of self.args.email is "not in" commit_email
IntersectionEmailMatch(data, a) ==
    Len(a.email) > 0 =>
        \A i \in 1..Len(a.email) : StrIn(a.email[i], data["commit_email"])

\* intersection: no user of self.args.user is "not in" commit_author
IntersectionUserMatch(data, a) ==
    Len(a.user) > 0 =>
        \A i \in 1..Len(a.user) : StrIn(a.user[i], data["commit_author"])

\* intersection: no keyword.lower() is "not in" commit_text_lower
IntersectionKeywordMatch(data, a) ==
    Len(a.keyword) > 0 =>
        \A i \in 1..Len(a.keyword) :
            StrIn(Lower(a.keyword[i]), Lower(CommitText(data)))

\* intersection mode: should_include after the three checks
IntersectionInclude(data, a) ==
    /\ IntersectionEmailMatch(data, a)
    /\ IntersectionUserMatch(data, a)
    /\ IntersectionKeywordMatch(data, a)

\* a mutant of UnionMode: every mode but "intersection" is union mode
UnionModeByDefault(a) == a.mode # "intersection"

\* union_mode = self.args.mode == "union"
UnionMode(a) == a.mode = "union"

\* whether the loop body stores the commit in cooked_commits[repo_name]
ShouldInclude(data, a) ==
    IF NoFilters(a) THEN TRUE
    ELSE IF UnionMode(a) THEN UnionInclude(data, a)
    ELSE IntersectionInclude(data, a)

\* the inner loop from commit i on; acc is cooked_commits[repo_name]
RECURSIVE CookCommits(_, _, _, _)
CookCommits(commits, i, acc, a) ==
    IF i > Len(commits) THEN acc
    ELSE CookCommits(commits, i + 1,
            IF ShouldInclude(commits[i].data, a)
            THEN CommitPut(acc, commits[i].hash, commits[i].data)
            ELSE acc,
            a)

\* a mutant of CookRepo: the commits are visited newest-last to oldest
RECURSIVE CookCommitsDown(_, _, _, _)
CookCommitsDown(commits, i, acc, a) ==
    IF i < 1 THEN acc
    ELSE CookCommitsDown(commits, i - 1,
            IF ShouldInclude(commits[i].data, a)
            THEN CommitPut(acc, commits[i].hash, commits[i].data)
            ELSE acc,
            a)
CookRepoReversed(commits, a) == CookCommitsDown(commits, Len(commits), <<>>, a)

\* cooked_commits[repo_name] = {} followed by the inner loop
CookRepo(commits, a) == CookCommits(commits, 1, <<>>, a)

\* a mutant of CookEntry: the repository entry is created only when a
\* commit of the repository is stored
CookEntryLazy(cooked, entry, a) ==
    IF CookRepo(entry.commits, a) = <<>> THEN cooked
    ELSE TablePut(cooked, entry.name, CookRepo(entry.commits, a))

\* one pass of the outer loop
CookEntry(cooked, entry, a) ==
    TablePut(cooked, entry.name, CookRepo(entry.commits, a))

\* the outer loop from repository r on
RECURSIVE CookTable(_, _, _, _)
CookTable(raw, r, cooked, a) ==
    IF r > Len(raw) THEN cooked
    ELSE CookTable(raw, r + 1, CookEntry(cooked, raw[r], a), a)

\* self.cooked_commits after cook(), from self.raw_commits, the
\* self.cooked_commits before the call and self.args
Cook(raw, cooked, a) ==
    IF Len(raw) = 0 THEN cooked ELSE CookTable(raw, 1, cooked, a)

\* ------------------------------------------------------------------------
\* hotspot(): the change counters
\* ------------------------------------------------------------------------
\* file_path in hotspots
HotHas(hot, path) == \E i \in 1..Len(hot) : hot[i].path = path

\* a mutant of CountFile: the owner is stored on every occurrence
CountFileLastOwner(st, path, repo) ==
    IF ~HotHas(st.hotspots, path)
    THEN [hotspots |-> Append(st.hotspots, [path |-> path, count |-> 1]),
          file_repos |-> Append(st.file_repos, [path |-> path, repo |-> repo])]
    ELSE [hotspots |-> [i \in 1..Len(st.hotspots) |->
                          IF st.hotspots[i].path = path
                          THEN [path |-> path, count |-> st.hotspots[i].count + 1]
                          ELSE st.hotspots[i]],
          file_repos |-> [i \in 1..Len(st.file_repos) |->
                          IF st.file_repos[i].path = path
                          THEN [path |-> path, repo |-> repo]
                          ELSE st.file_repos[i]]]

\* the body of "for file_path in changed_files"
CountFile(st, path, repo) ==
    IF ~HotHas(st.hotspots, path)
    THEN [hotspots |-> Append(st.hotspots, [path |-> path, count |-> 1]),
          file_repos |-> Append(st.file_repos, [path |-> path, repo |-> repo])]
    ELSE [hotspots |-> [i \in 1..Len(st.hotspots) |->
                          IF st.hotspots[i].path = path
                          THEN [path |-> path, count |-> st.hotspots[i].count + 1]
                          ELSE st.hotspots[i]],
          file_repos |-> st.file_repos]

\* for file_path in changed_files, from file j on
RECURSIVE CountFiles(_, _, _, _)
CountFiles(files, j, repo, st) ==
    IF j > Len(files) THEN st
    ELSE CountFiles(files, j + 1, repo, CountFile(st, files[j], repo))

\* for commit_hash, commit_data in commits.items(), from commit i on
RECURSIVE CountCommits(_, _, _, _)
CountCommits(commits, i, repo, st) ==
    IF i > Len(commits) THEN st
    ELSE CountCommits(commits, i + 1, repo,
            CountFiles(Get(commits[i].data, "commit_changed_files", <<>>),
                       1, repo, st))

\* for repo_name, commits in self.cooked_commits.items(), from entry r on
RECURSIVE CountRepos(_, _, _)
CountRepos(table, r, st) ==
    IF r > Len(table) THEN st
    ELSE CountRepos(table, r + 1,
            CountCommits(table[r].commits, 1, table[r].name, st))

\* hotspots and file_repos after the counting loops
CountChanges(table) ==
    CountRepos(table, 1, [hotspots |-> <<>>, file_repos |-> <<>>])

\* ------------------------------------------------------------------------
\* get_color_by_count
\* ------------------------------------------------------------------------
Purple == "35m"
DarkRed == "31m"
Red == "91m"
Orange == "33m"
Yellow == "93m"
None == "None"

\* a mutant of get_color_by_count: the thresholds by floor division
GetColorByCountFloor(count, max_count) ==
    IF count >= (max_count * 5) \div 6 THEN Purple
    ELSE IF count >= (max_count * 4) \div 6 THEN DarkRed
    ELSE IF count >= (max_count * 3) \div 6 THEN Red
    ELSE IF count >= (max_count * 2) \div 6 THEN Orange
    ELSE IF count >= (max_count * 1) \div 6 THEN Yellow
    ELSE None

\* a mutant of get_color_by_count: a count gets a colour only above max_count
GetColorByCountAboveMax(count, max_count) ==
    IF count > max_count THEN Purple ELSE None

\* a mutant of get_color_by_count: the colours of the two highest tiers
\* are exchanged
GetColorByCountSwapped(count, max_count) ==
    IF 6 * count >= max_count * 5 THEN DarkRed
    ELSE IF 6 * count >= max_count * 4 THEN Purple
    ELSE IF 6 * count >= max_count * 3 THEN Red
    ELSE IF 6 * count >= max_count * 2 THEN Orange
    ELSE IF 6 * count >= max_count * 1 THEN Yellow
    ELSE None

\* count >= max_count * k/6 compares an int with the float (max_count*k)/6;
\* for the counts of the model the division is exact to well below 1/6, so
\* the comparison is 6 * count >= max_count * k
get_color_by_count(count, max_count) ==
    IF 6 * count >= max_count * 5 THEN Purple
    ELSE IF 6 * count >= max_count * 4 THEN DarkRed
    ELSE IF 6 * count >= max_count * 3 THEN Red
    ELSE IF 6 * count >= max_count * 2 THEN Orange
    ELSE IF 6 * count >= max_count * 1 THEN Yellow
    ELSE None

\* the tier a colour stands for: 5 is the highest, 0 is "not printed"
TierOf(color) ==
    CASE color = Purple -> 5
      [] color = DarkRed -> 4
      [] color = Red -> 3
      [] color = Orange -> 2
      [] color = Yellow -> 1
      [] OTHER -> 0

\* ------------------------------------------------------------------------
\* hotspot(): ranking, grouping and the printed table
\* ------------------------------------------------------------------------
\* "\033[0m"
EndColor == "0m"

\* the characters of the model in code-point order, as str comparison and
\* sorted() order them
CodePointOrder ==
    <<" ", "-", ".", "/", "0", "1", "2", "3", "4", "5", "6", "7", "8", "9", "@">>
    \o UpperChars \o LowerChars

\* ord(ch), up to an order-preserving renumbering
Ord ==
    [ch \in {CodePointOrder[i] : i \in 1..Len(CodePointOrder)} |->
        CHOOSE i \in 1..Len(CodePointOrder) : CodePointOrder[i] = ch]

\* s < t on Python strings
StrLess(s, t) ==
    \E k \in 1..(Len(s) + 1) :
        /\ k <= Len(t)
        /\ \A i \in 1..(k - 1) : s[i] = t[i]
        /\ k > Len(s) \/ Ord[s[k]] < Ord[t[k]]

\* str(count) for a count >= 0
RECURSIVE Str(_)
Str(n) ==
    IF n < 10 THEN <<CodePointOrder[5 + n]>>
    ELSE Str(n \div 10) \o <<CodePointOrder[5 + (n % 10)]>>

\* "-" * n
Dashes(n) == [i \in 1..n |-> "-"]

\* one step of the stable sort by count, descending: the item goes behind
\* every item whose count is not smaller
InsertByCount(sorted, item) ==
    LET before == {i \in 1..Len(sorted) : sorted[i].count >= item.count}
        n == Cardinality(before)
    IN  SubSeq(sorted, 1, n) \o <<item>> \o SubSeq(sorted, n + 1, Len(sorted))

\* sorted(hotspots.items(), key=lambda x: x[1], reverse=True), from item i on
RECURSIVE SortFilesFrom(_, _, _)
SortFilesFrom(hot, i, sorted) ==
    IF i > Len(hot) THEN sorted
    ELSE SortFilesFrom(hot, i + 1, InsertByCount(sorted, hot[i]))

\* sorted_files
SortedFiles(hot) == SortFilesFrom(hot, 1, <<>>)

\* max_changes: 0 without files, else max(hotspots.values())
MaxChanges(hot) ==
    IF Len(hot) = 0 THEN 0
    ELSE CHOOSE m \in {hot[i].count : i \in 1..Len(hot)} :
            \A i \in 1..Len(hot) : hot[i].count <= m

\* file_path.split('/')[0] when '/' in file_path, else 'root'
DirName(path) ==
    IF \E i \in 1..Len(path) : path[i] = "/"
    THEN SubSeq(path, 1,
            (CHOOSE i \in 1..Len(path) :
                path[i] = "/" /\ \A j \in 1..(i - 1) : path[j] # "/") - 1)
    ELSE <<"r", "o", "o", "t">>

\* file_repos.get(file_path, "unknown")
OwnerOf(owners, path) ==
    IF \E i \in 1..Len(owners) : owners[i].path = path
    THEN owners[CHOOSE i \in 1..Len(owners) : owners[i].path = path].repo
    ELSE <<"u", "n", "k", "n", "o", "w", "n">>

\* dir_key = f"{repo_name}/{dir_name}"
DirKey(owners, path) == OwnerOf(owners, path) \o <<"/">> \o DirName(path)

\* dir_files[dir_key].append((file_path, count)), the list created on the
\* first use of the key
DirFilesAppend(groups, key, item) ==
    IF \E i \in 1..Len(groups) : groups[i].key = key
    THEN [i \in 1..Len(groups) |->
            IF groups[i].key = key
            THEN [key |-> key, files |-> Append(groups[i].files, item)]
            ELSE groups[i]]
    ELSE Append(groups, [key |-> key, files |-> <<item>>])

\* the grouping loop over sorted_files, from item i on
RECURSIVE GroupFrom(_, _, _, _, _)
GroupFrom(sorted, i, owners, max_changes, groups) ==
    IF i > Len(sorted) THEN groups
    ELSE GroupFrom(sorted, i + 1, owners, max_changes,
            IF get_color_by_count(sorted[i].count, max_changes) # None
            THEN DirFilesAppend(groups, DirKey(owners, sorted[i].path), sorted[i])
            ELSE groups)

\* dir_files
DirFiles(hot, owners) ==
    GroupFrom(SortedFiles(hot), 1, owners, MaxChanges(hot), <<>>)

\* one step of sorted(dir_files.keys()): the key goes behind the smaller keys
InsertKey(sorted, key) ==
    LET n == Cardinality({i \in 1..Len(sorted) : StrLess(sorted[i], key)})
    IN  SubSeq(sorted, 1, n) \o <<key>> \o SubSeq(sorted, n + 1, Len(sorted))

RECURSIVE SortKeysFrom(_, _, _)
SortKeysFrom(groups, i, sorted) ==
    IF i > Len(groups) THEN sorted
    ELSE SortKeysFrom(groups, i + 1, InsertKey(sorted, groups[i].key))

\* a mutant of SortedDirNames: the keys in dir_files order, unsorted
DirNamesUnsorted(groups) == [i \in 1..Len(groups) |-> groups[i].key]

\* sorted_dir_names = sorted(dir_files.keys())
SortedDirNames(groups) == SortKeysFrom(groups, 1, <<>>)

\* max_dir_width, max_file_width
MaxWidth(lengths) ==
    IF lengths = {} THEN 0 ELSE CHOOSE w \in lengths : \A v \in lengths : v <= w
MaxDirWidth(groups) == MaxWidth({Len(groups[i].key) : i \in 1..Len(groups)})
MaxFileWidth(groups) ==
    MaxWidth(UNION {{Len(groups[i].files[j].path) : j \in 1..Len(groups[i].files)} :
                    i \in 1..Len(groups)})
\* max_count_width
MaxCountWidth == 10

\* dir_files[dir_key]
FilesOf(groups, key) ==
    groups[CHOOSE i \in 1..Len(groups) : groups[i].key = key].files

\* f"{color}{text}{end_color}"
Colored(clr, text) == <<clr>> \o text \o <<EndColor>>

\* the row of a file; dir_cell is the directory column of the row
FileRow(dir_cell, item, max_changes) ==
    LET clr == get_color_by_count(item.count, max_changes) IN
    IF clr # None
    THEN <<[dir |-> IF dir_cell = <<>> THEN <<>> ELSE Colored(clr, dir_cell),
            file |-> Colored(clr, item.path),
            changes |-> Colored(clr, Str(item.count))]>>
    ELSE <<>>

\* the rows of the files after the first one of a group, from file j on
RECURSIVE RestRows(_, _, _)
RestRows(files, j, max_changes) ==
    IF j > Len(files) THEN <<>>
    ELSE FileRow(<<>>, files[j], max_changes) \o RestRows(files, j + 1, max_changes)

\* the separator row
SeparatorRow(groups) ==
    <<[dir |-> Dashes(MaxDirWidth(groups)), file |-> Dashes(MaxFileWidth(groups)),
       changes |-> Dashes(MaxCountWidth)]>>

\* a mutant of GroupRows: the separator comes in front of every group
GroupRowsAlwaysSeparated(groups, names, g, max_changes) ==
    SeparatorRow(groups)
    \o FileRow(names[g], FilesOf(groups, names[g])[1], max_changes)
    \o RestRows(FilesOf(groups, names[g]), 2, max_changes)

\* one pass of "for dir_key in sorted_dir_names": the rows it adds
GroupRows(groups, names, g, max_changes) ==
    (IF g > 1 THEN SeparatorRow(groups) ELSE <<>>)
    \o FileRow(names[g], FilesOf(groups, names[g])[1], max_changes)
    \o RestRows(FilesOf(groups, names[g]), 2, max_changes)

\* the rows of the table, from group g of sorted_dir_names on
RECURSIVE RowsFrom(_, _, _, _)
RowsFrom(groups, names, g, max_changes) ==
    IF g > Len(names) THEN <<>>
    ELSE GroupRows(groups, names, g, max_changes)
         \o RowsFrom(groups, names, g + 1, max_changes)

\* the rows added to the table
TableRows(groups, max_changes) ==
    RowsFrom(groups, SortedDirNames(groups), 1, max_changes)

\* a mutant of HotspotOutcome: the "if not dir_files" return is missing
HotspotOutcomeNoEmptyCheck(table) ==
    LET st == CountChanges(table)
        groups == DirFiles(st.hotspots, st.file_repos)
    IN  [hotspots |-> st.hotspots, file_repos |-> st.file_repos,
         dir_files |-> groups,
         table_rows |-> TableRows(groups, MaxChanges(st.hotspots)),
         logged |-> {<<"info", "Starting code hotspot analysis">>,
                     <<"info", "Code hotspot analysis results">>,
                     <<"info", "Code hotspot analysis complete">>,
                     <<"info", "table">>,
                     <<"info", "Hotspot analysis complete">>}]

\* what an enabled hotspot() computes and logs
HotspotOutcome(table) ==
    LET st == CountChanges(table)
        groups == DirFiles(st.hotspots, st.file_repos)
    IN  IF Len(groups) = 0
        THEN [hotspots |-> st.hotspots, file_repos |-> st.file_repos,
              dir_files |-> groups, table_rows |-> <<>>,
              logged |-> {<<"info", "Starting code hotspot analysis">>,
                          <<"info", "Code hotspot analysis results">>,
                          <<"info", "Code hotspot analysis complete">>,
                          <<"info", "No matching files found in hotspot analysis">>}]
        ELSE [hotspots |-> st.hotspots, file_repos |-> st.file_repos,
              dir_files |-> groups,
              table_rows |-> TableRows(groups, MaxChanges(st.hotspots)),
              logged |-> {<<"info", "Starting code hotspot analysis">>,
                          <<"info", "Code hotspot analysis results">>,
                          <<"info", "Code hotspot analysis complete">>,
                          <<"info", "table">>,
                          <<"info", "Hotspot analysis complete">>}]

\* ------------------------------------------------------------------------
\* initialize_repo(), _try_add_repo() and raw(): the collector
\* ------------------------------------------------------------------------
\* self.args.path and the directories below it, in os.walk order
PathDir == "path"
WalkDirs == <<"path", "path/one", "path/two">>

NoError == "none"
\* the return value None, and the return values True and False
NoValue == "None"
PyTrue == "True"
PyFalse == "False"
\* self.git_analyzer = None, and GitAnalyzer(valid_git_repos)
NoAnalyzer == [none |-> TRUE, repos |-> <<>>]
Analyzer(valid) == [none |-> FALSE, repos |-> valid]

\* dir_path_list of initialize_repo
DirPathList(a, dirs) ==
    IF a.recursive
    THEN SelectSeq(WalkDirs, LAMBDA d : d \in dirs)
    ELSE <<PathDir>>

\* valid_git_repos of _try_add_repo
ValidGitRepos(dir_path_list, dirs) == SelectSeq(dir_path_list, LAMBDA d : d \in dirs)

\* the logger calls of initialize_repo before it calls _try_add_repo
InitializeLog(a, dirs) ==
    {<<"info", "Analyzing path">>}
    \cup (IF a.recursive THEN {<<"info", "Recursive mode enabled">>} ELSE {})
    \cup (IF ~a.recursive /\ PathDir \notin dirs
          THEN {<<"error", "not a valid Git repository">>} ELSE {})

\* a mutant of TryAddRepo: GitAnalyzer is constructed although no directory
\* is a Git repository
TryAddRepoEager(dir_path_list, dirs, src) ==
    LET valid == ValidGitRepos(dir_path_list, dirs) IN
    IF src.init_raises
    THEN [git_analyzer |-> NoAnalyzer, returned |-> PyFalse, raised |-> NoError,
          logged |-> {<<"info", "Found Git repo">>,
                      <<"error", "Unknown error initializing GitAnalyzer">>}]
    ELSE [git_analyzer |-> Analyzer(valid), returned |-> PyTrue, raised |-> NoError,
          logged |-> {<<"info", "Found Git repo">>,
                      <<"info", "Successfully loaded Git repositories">>}]

\* _try_add_repo(dir_path_list): the new git_analyzer, the return value and
\* the logger calls
TryAddRepo(dir_path_list, dirs, src) ==
    LET valid == ValidGitRepos(dir_path_list, dirs) IN
    IF Len(valid) = 0
    THEN [git_analyzer |-> NoAnalyzer, returned |-> PyFalse, raised |-> NoError,
          logged |-> {<<"warning", "No valid Git repositories found">>}]
    ELSE IF src.init_raises
    THEN [git_analyzer |-> NoAnalyzer, returned |-> PyFalse, raised |-> NoError,
          logged |-> {<<"info", "Found Git repo">>,
                      <<"error", "Unknown error initializing GitAnalyzer">>}]
    ELSE [git_analyzer |-> Analyzer(valid), returned |-> PyTrue, raised |-> NoError,
          logged |-> {<<"info", "Found Git repo">>,
                      <<"info", "Successfully loaded Git repositories">>}]

\* the logger calls of raw()
RawLog ==
    {<<"info", "Starting to collect raw commit data">>,
     <<"info", "Collecting commits since">>}

\* ------------------------------------------------------------------------
\* The logger calls of cook()
\* ------------------------------------------------------------------------
CookLog(raw, a) ==
    IF Len(raw) = 0
    THEN {<<"info", "Starting to process commit data">>,
          <<"warning", "No matching commits found">>}
    ELSE {<<"info", "Starting to process commit data">>,
          <<"info", "Union mode: match any condition">>,
          <<"info", "Intersection mode: must match all conditions">>,
          <<"info", IF UnionMode(a) THEN "[Search Mode] Using Union Mode"
                    ELSE "[Search Mode] Using Intersection Mode">>,
          <<"info", "Email conditions">>,
          <<"info", "User conditions">>,
          <<"info", "Keyword conditions">>,
          <<"info", "Processing complete, found matching commits">>,
          <<"info", "table">>}

\* ------------------------------------------------------------------------
\* generate_report(): the writes to the report file
\* ------------------------------------------------------------------------
S_Unknown == <<"U", "n", "k", "n", "o", "w", "n">>
S_No_message == <<"N", "o", " ", "m", "e", "s", "s", "a", "g", "e">>

\* an empty working directory, and open(name, 'w') ... close() with a content
NoFiles == [n \in {} |-> <<>>]
FilePut(dir, name, content) ==
    [n \in DOMAIN dir \cup {name} |-> IF n = name THEN content ELSE dir[n]]

\* strftime with %S as the finest field: the instant cut to whole seconds
Timestamp(now) == now \div TicksPerSecond

\* output_file
OutputFile(now) == <<"git_patch_report_", Timestamp(now), ".diff">>

\* "key in commit_data and commit_data[key]"
HasTruthy(data, key) == key \in DOMAIN data /\ data[key] # <<>>

\* a mutant of NothingToReport: generate_report() without its first check
NothingToReportNever(cooked) == FALSE

\* "not self.cooked_commits": the table has no repository entry
NothingToReport(cooked) == Len(cooked) = 0

\* a mutant of HeaderWrites: the title line carries the time as well
HeaderWritesStamped(now) ==
    << <<"# Git Patch/Diff Report", Timestamp(now)>>,
       <<"# Generated: ", Timestamp(now)>> >>

\* the header: the title, and the time of generation
HeaderWrites(now) ==
    << <<"# Git Patch/Diff Report">>, <<"# Generated: ", Timestamp(now)>> >>

\* the banner of a repository
BannerWrites(repo_name) ==
    << <<"====">>, <<"Repository: ", repo_name>>, <<"====">> >>

\* the list of changed files, when there is one
ChangedFilesWrites(data) ==
    IF HasTruthy(data, "commit_changed_files")
    THEN << <<"Changed Files:">> >>
         \o [i \in 1..Len(data.commit_changed_files) |->
                <<"  - ", data.commit_changed_files[i]>>]
         \o << <<"\n">> >>
    ELSE <<>>

\* the diff, or the note that there is none
DiffWrites(data) ==
    IF HasTruthy(data, "commit_diff_text")
    THEN << <<"Git Patch/Diff:">>, <<"diff", data.commit_diff_text>>, <<"\n\n">> >>
    ELSE << <<"No diff information available for this commit">> >>

\* the URL, when there is one
UrlWrites(data) ==
    IF HasTruthy(data, "commit_url")
    THEN << <<"Commit URL: ", data.commit_url>> >>
    ELSE <<>>

\* the block of one commit
CommitWrites(repo_name, entry, a) ==
    << <<"----">>,
       <<"Commit: ", entry.hash>>,
       <<"Author: ", Get(entry.data, "commit_author", S_Unknown),
                     Get(entry.data, "commit_email", S_Unknown)>>,
       <<"Date: ", Get(entry.data, "commit_date", S_Unknown)>>,
       <<"Commit Message:">>,
       <<"message", Get(entry.data, "commit_message", S_No_message)>>,
       <<"Analysis Context:">>,
       <<"pre_prompt", repo_name, a.keyword>>,
       <<"\n\n">> >>
    \o ChangedFilesWrites(entry.data)
    \o DiffWrites(entry.data)
    \o UrlWrites(entry.data)

\* the blocks of the commits i.. of a repository
RECURSIVE CommitsWrites(_, _, _, _)
CommitsWrites(repo_name, commits, i, a) ==
    IF i > Len(commits) THEN <<>>
    ELSE CommitWrites(repo_name, commits[i], a)
         \o CommitsWrites(repo_name, commits, i + 1, a)

\* a mutant of RepoWrites: no "if not commits: continue"
RepoWritesBannerAlways(entry, a) ==
    BannerWrites(entry.name) \o CommitsWrites(entry.name, entry.commits, 1, a)

\* one repository: nothing when it has no commit, else banner and blocks
RepoWrites(entry, a) ==
    IF Len(entry.commits) = 0 THEN <<>>
    ELSE BannerWrites(entry.name) \o CommitsWrites(entry.name, entry.commits, 1, a)

\* the repositories r.. of the cooked table
RECURSIVE ReposWrites(_, _, _)
ReposWrites(cooked, r, a) ==
    IF r > Len(cooked) THEN <<>>
    ELSE RepoWrites(cooked[r], a) \o ReposWrites(cooked, r + 1, a)

\* everything written to the file opened at "now"
ReportContent(cooked, a, now) == HeaderWrites(now) \o ReposWrites(cooked, 1, a)

\* a mutant of ReportRaised: the error of open() or write() is swallowed
ReportRaisedNever(d) == NoError

\* what generate_report() lets out: the OSError of open() or f.write(), which
\* it does not catch
ReportRaised(d) == IF d = "ok" THEN NoError ELSE "IOError"

\* a call that wrote nothing, and a call that wrote content to a file
NoReport == [wrote |-> FALSE, name |-> <<>>, content |-> <<>>]
Report(name, content) == [wrote |-> TRUE, name |-> name, content |-> content]

\* the logger calls of generate_report()
ReportLog(cooked) ==
    IF NothingToReport(cooked)
    THEN {<<"warning", "No processed commits available for report generation">>}
    ELSE {<<"info", "Generating git patch/diff report file...">>,
          <<"info", "Git patch/diff report generated">>,
          <<"info", "File path">>,
          <<"info", "This report can be opened directly in Cursor">>}

\* ------------------------------------------------------------------------
\* The dashboard: the callback toggle_modal of the detail modal
\* ------------------------------------------------------------------------
\* the layout: the modal is closed, no callback has run
ModalLaidOut ==
    /\ is_open = FALSE
    /\ modal_content = <<>>
    /\ modal_title = <<"AI Analysis Details">>
    /\ last_event = [trigger |-> "layout",
                     active_cell |-> [none |-> TRUE, column_id |-> "", row |-> 0],
                     table_data |-> <<>>]

\* the values of the table's data: up to two rows, one with every key and
\* an analysis, one with few keys and a blank analysis
TableDatas ==
    LET full == [commit_hash |-> <<"a", "b">>, full_hash |-> <<"a", "b", "c", "d">>,
                 repo_name |-> RepoA, author |-> S_al, date |-> S_date,
                 full_ai_summary |-> <<"o", "k">>]
        bare == [commit_hash |-> <<"e", "f">>, full_ai_summary |-> <<" ">>]
    IN  {<<>>, <<full>>, <<bare>>, <<full, bare>>, <<bare, full>>}

\* a mutant of ToggleModal: the "x" control does not close
ToggleModalSticky(trigger, active_cell, open, table_data) ==
    IF trigger \in {"none", "close-modal"}
    THEN [is_open |-> FALSE, content |-> <<>>, title |-> <<"AI Analysis Details">>]
    ELSE [is_open |-> open, content |-> <<>>, title |-> <<"AI Analysis Details">>]

\* toggle_modal(active_cell, close_clicks, close_x_clicks, is_open,
\* table_data) with ctx.triggered empty ("none") or naming the trigger: the
\* three outputs.  Row indices count from 0.
ToggleModal(trigger, active_cell, open, table_data) ==
    IF trigger = "none"
    THEN [is_open |-> FALSE, content |-> <<>>, title |-> <<"AI Analysis Details">>]
    ELSE IF trigger \in {"close-modal", "close-modal-x"}
    THEN [is_open |-> FALSE, content |-> <<>>, title |-> <<"AI Analysis Details">>]
    ELSE IF /\ trigger = "json-data-table"
            /\ ~active_cell.none
            /\ active_cell.column_id = "ai_summary"
            /\ active_cell.row < Len(table_data)
    THEN LET row_data == table_data[active_cell.row + 1]
             commit_hash == Get(row_data, "commit_hash", S_Unknown)
             full_hash == Get(row_data, "full_hash", commit_hash)
             repo == Get(row_data, "repo_name", S_Unknown)
             author == Get(row_data, "author", S_Unknown)
             date == Get(row_data, "date", S_Unknown)
             given == Get(row_data, "full_ai_summary", <<>>)
             full_summary == IF \A i \in 1..Len(given) : given[i] = " "
                             THEN <<"Analysis Not Available">>
                             ELSE given
         IN  [is_open |-> TRUE,
              content |-> <<"Commit Overview", repo, full_hash, author, date,
                            "AI Analysis Results", full_summary, date>>,
              title |-> <<repo, commit_hash>>]
    ELSE [is_open |-> open, content |-> <<>>, title |-> <<"AI Analysis Details">>]

\* ------------------------------------------------------------------------
\* Operations
\* ------------------------------------------------------------------------
NoCall == [count |-> 0, max_count |-> 0]

\* the Repository Source answers every call
SourceWorks == [init_raises |-> FALSE, fetch_raises |-> FALSE]

\* __init__: no analyzer, empty tables
Constructed ==
    /\ git_analyzer = NoAnalyzer
    /\ raw_commits = EmptyTable
    /\ cooked_commits = EmptyTable
    /\ hotspots = <<>>
    /\ file_repos = <<>>
    /\ dir_files = <<>>
    /\ table_rows = <<>>
    /\ pc = "init"
    /\ returned = NoValue
    /\ raised = NoError
    /\ logged = {<<"info", "Initializing CodeTrail executor">>}
    /\ clock = 0
    /\ cwd_files = NoFiles
    /\ reports = <<>>

\* __init__ with any arguments, on a path that is a Git repository
Init ==
    /\ args \in ArgsSet
    /\ git_dirs = {PathDir}
    /\ source = SourceWorks
    /\ disk = "ok"
    /\ Constructed
    /\ ModalLaidOut
    /\ count_in = <<NoCall, NoCall>>
    /\ color_out = <<None, None>>

\* initialize_repo()
initialize_repo ==
    /\ pc = "init"
    /\ LET out == TryAddRepo(DirPathList(args, git_dirs), git_dirs, source) IN
       /\ git_analyzer' = out.git_analyzer
       /\ returned' = out.returned
       /\ raised' = out.raised
       /\ logged' = InitializeLog(args, git_dirs) \cup out.logged
    /\ pc' = "initialize_repo"
    /\ UNCHANGED <<envVars, dashVars, raw_commits, cooked_commits, hotVars, tierVars, reportVars>>

\* raw() when get_all_commits returns a table of the given set:
\* self.raw_commits = self.git_analyzer.get_all_commits(...); the call fails
\* on a missing analyzer, and an error of the source passes through raw()
RawFrom(tables) ==
    /\ pc = "initialize_repo"
    /\ raised = NoError
    /\ IF git_analyzer.none
       THEN /\ raised' = "AttributeError"
            /\ UNCHANGED raw_commits
       ELSE IF source.fetch_raises
       THEN /\ raised' = "SourceError"
            /\ UNCHANGED raw_commits
       ELSE /\ raised' = NoError
            /\ raw_commits' \in tables
    /\ returned' = NoValue
    /\ logged' = RawLog
    /\ pc' = "raw"
    /\ UNCHANGED <<envVars, dashVars, git_analyzer, cooked_commits, hotVars, tierVars, reportVars>>

\* raw()
raw == RawFrom(RawTables)

\* cook()
cook ==
    /\ pc \in {"init", "raw"}
    /\ raised = NoError
    /\ cooked_commits' = Cook(raw_commits, cooked_commits, args)
    /\ returned' = NoValue
    /\ raised' = NoError
    /\ logged' = CookLog(raw_commits, args)
    /\ pc' = "cook"
    /\ UNCHANGED <<envVars, dashVars, git_analyzer, raw_commits, hotVars, tierVars, reportVars>>

\* a mutant of hotspot: the cooked table is emptied while it is counted
hotspot_consuming ==
    /\ pc = "cook"
    /\ IF args.hotspot
       THEN LET out == HotspotOutcome(cooked_commits) IN
            /\ hotspots' = out.hotspots
            /\ file_repos' = out.file_repos
            /\ dir_files' = out.dir_files
            /\ table_rows' = out.table_rows
            /\ logged' = out.logged
            /\ cooked_commits' = EmptyTable
       ELSE /\ UNCHANGED <<hotVars, cooked_commits>>
            /\ logged' = {<<"info", "Hotspot analysis disabled">>}
    /\ returned' = NoValue
    /\ raised' = NoError
    /\ pc' = "hotspot"
    /\ UNCHANGED <<envVars, dashVars, git_analyzer, raw_commits, tierVars, reportVars>>

\* hotspot(): returns at once when args.hotspot is off
hotspot ==
    /\ pc = "cook"
    /\ IF args.hotspot
       THEN LET out == HotspotOutcome(cooked_commits) IN
            /\ hotspots' = out.hotspots
            /\ file_repos' = out.file_repos
            /\ dir_files' = out.dir_files
            /\ table_rows' = out.table_rows
            /\ logged' = out.logged
       ELSE /\ UNCHANGED hotVars
            /\ logged' = {<<"info", "Hotspot analysis disabled">>}
    /\ returned' = NoValue
    /\ raised' = NoError
    /\ pc' = "hotspot"
    /\ UNCHANGED <<envVars, dashVars, git_analyzer, raw_commits, cooked_commits, tierVars, reportVars>>

Next == initialize_repo \/ raw \/ cook \/ hotspot

Spec == Init /\ [][Next]_vars

\* ------------------------------------------------------------------------
\* get_color_by_count on its own: two paths of one run, counts a and b,
\* with the run's max_count
\* ------------------------------------------------------------------------
CountInputs ==
    {<<[count |-> a, max_count |-> m], [count |-> b, max_count |-> m]>> :
        a \in 1..MaxCount, b \in 1..MaxCount, m \in 1..MaxCount}

InitTier ==
    /\ args \in {x \in ArgsSet : x.hotspot /\ NoFilters(x) /\ UnionMode(x)}
    /\ git_dirs = {PathDir}
    /\ source = SourceWorks
    /\ disk = "ok"
    /\ Constructed
    /\ ModalLaidOut
    /\ count_in \in {c \in CountInputs :
                        c[1].count <= c[1].max_count /\ c[2].count <= c[2].max_count}
    /\ color_out = <<None, None>>

\* the calls get_color_by_count(count, max_changes) for the two paths
color ==
    /\ pc = "init"
    /\ color_out' = <<get_color_by_count(count_in[1].count, count_in[1].max_count),
                      get_color_by_count(count_in[2].count, count_in[2].max_count)>>
    /\ pc' = "color"
    /\ UNCHANGED <<envVars, dashVars, git_analyzer, raw_commits, cooked_commits, hotVars,
                   returned, raised, logged, count_in, reportVars>>

NextTier == color

SpecTier == InitTier /\ [][NextTier]_vars

\* ------------------------------------------------------------------------
\* The collector on its own: any directory layout, a source that may fail
\* ------------------------------------------------------------------------
InitCollect ==
    /\ args \in {[a EXCEPT !.recursive = r] :
                    a \in {x \in ArgsSet : ~x.hotspot /\ NoFilters(x) /\ UnionMode(x)},
                    r \in BOOLEAN}
    /\ git_dirs \in SUBSET {WalkDirs[i] : i \in 1..Len(WalkDirs)}
    /\ source \in [init_raises : BOOLEAN, fetch_raises : BOOLEAN]
    /\ disk = "ok"
    /\ Constructed
    /\ ModalLaidOut
    /\ count_in = <<NoCall, NoCall>>
    /\ color_out = <<None, None>>

NextCollect == initialize_repo \/ raw

SpecCollect == InitCollect /\ [][NextCollect]_vars

\* ------------------------------------------------------------------------
\* hotspot() on long histories: one file changed up to MaxBulk times more
\* ------------------------------------------------------------------------
\* n copies of a record
Repeat(c, n) == [i \in 1..n |-> c]
\* the ordered mapping of the records, hashes h1, h2, ...
Numbered(cs) == [i \in 1..Len(cs) |-> [hash |-> Hash(i), data |-> cs[i]]]

S_src_b_py == <<"s", "r", "c", "/", "b", ".", "p", "y">>
\* a commit that changes src/b.py only
Commit4 == [Commit1 EXCEPT !.commit_changed_files = <<S_src_b_py>>]

\* repoA with n1 commits on src/a.py, n2 on src/a.py and docs/readme.md and
\* n4 on src/b.py, repoB with m3 commits on a.py and m1 on src/a.py
BulkTables ==
    {<<[name |-> RepoA,
        commits |-> Numbered(Repeat(Commit1, n1) \o Repeat(Commit2, n2)
                               \o Repeat(Commit4, n4))],
       [name |-> RepoB,
        commits |-> Numbered(Repeat(Commit3, m3) \o Repeat(Commit1, m1))]>> :
        n1 \in 0..MaxBulk, n2 \in 0..2, n4 \in 0..2, m3 \in 0..2, m1 \in 0..1}

InitHot ==
    /\ args \in {x \in ArgsSet : x.hotspot /\ NoFilters(x)}
    /\ git_dirs = {PathDir}
    /\ source = SourceWorks
    /\ disk = "ok"
    /\ Constructed
    /\ ModalLaidOut
    /\ count_in = <<NoCall, NoCall>>
    /\ color_out = <<None, None>>

\* raw() on a long history
raw_bulk == RawFrom(BulkTables)

NextHot == initialize_repo \/ raw_bulk \/ cook \/ hotspot

SpecHot == InitHot /\ [][NextHot]_vars

\* ------------------------------------------------------------------------
\* generate_report(), called up to MaxRuns times while the clock runs
\* ------------------------------------------------------------------------
\* the commits of one repository, and the tables get_all_commits returns
ReportCommitLists ==
    {<<>>, <<Commit1>>, <<Commit2>>, <<Commit1, Commit2>>, <<Commit3, Commit1>>}
ReportTables ==
    {EmptyTable}
    \cup {<<[name |-> RepoA, commits |-> Numbered(a)]>> : a \in ReportCommitLists}
    \cup {<<[name |-> RepoA, commits |-> Numbered(a)],
            [name |-> RepoB, commits |-> Numbered(b)]>> :
          a \in ReportCommitLists, b \in ReportCommitLists}

InitReport ==
    /\ args \in {x \in ArgsSet : /\ x.email = <<>> /\ x.user = <<>>
                                 /\ x.keyword \in {<<>>, <<S_bug>>}
                                 /\ UnionMode(x)}
    /\ git_dirs = {PathDir}
    /\ source = SourceWorks
    /\ disk \in {"ok", "open_fails", "write_fails"}
    /\ Constructed
    /\ ModalLaidOut
    /\ count_in = <<NoCall, NoCall>>
    /\ color_out = <<None, None>>

\* raw() for the report
raw_report == RawFrom(ReportTables)

\* generate_report(): datetime.now() is read for the file name and, at the
\* same instant or later, for the "Generated:" line.  open() and write()
\* are not inside try/except: when open() fails no file is made, when a
\* write fails the file keeps what was written before it
generate_report ==
    /\ pc \in {"init", "cook", "hotspot", "report"}
    /\ raised = NoError
    /\ Len(reports) < MaxRuns
    /\ IF NothingToReport(cooked_commits)
       THEN /\ reports' = Append(reports, NoReport)
            /\ logged' = ReportLog(cooked_commits)
            /\ raised' = NoError
            /\ UNCHANGED <<clock, cwd_files>>
       ELSE IF disk = "open_fails"
       THEN /\ reports' = Append(reports, NoReport)
            /\ logged' = {<<"info", "Generating git patch/diff report file...">>}
            /\ raised' = ReportRaised(disk)
            /\ UNCHANGED <<clock, cwd_files>>
       ELSE \E later \in {t \in {clock, clock + 1} : t <= MaxClock} :
            LET content == ReportContent(cooked_commits, args, later) IN
            /\ clock' = later
            /\ raised' = ReportRaised(disk)
            /\ IF disk = "write_fails"
               THEN /\ \E k \in 0..(Len(content) - 1) :
                          cwd_files' = FilePut(cwd_files, OutputFile(clock),
                                               SubSeq(content, 1, k))
                    /\ reports' = Append(reports, NoReport)
                    /\ logged' = {<<"info", "Generating git patch/diff report file...">>}
               ELSE /\ cwd_files' = FilePut(cwd_files, OutputFile(clock), content)
                    /\ reports' = Append(reports, Report(OutputFile(clock), content))
                    /\ logged' = ReportLog(cooked_commits)
    /\ returned' = NoValue
    /\ pc' = "report"
    /\ UNCHANGED <<envVars, dashVars, git_analyzer, raw_commits, cooked_commits, hotVars, tierVars>>

\* time passes between the calls
tick ==
    /\ pc \in {"cook", "report"}
    /\ clock < MaxClock
    /\ clock' = clock + 1
    /\ UNCHANGED <<envVars, dashVars, git_analyzer, raw_commits, cooked_commits, hotVars,
                   tierVars, pc, returned, raised, logged, cwd_files, reports>>

NextReport == initialize_repo \/ raw_report \/ cook \/ hotspot \/ generate_report \/ tick

SpecReport == InitReport /\ [][NextReport]_vars

\* ------------------------------------------------------------------------
\* raw() and cook() called again and again on one executor, with records
\* that lack a field and with any value of args.mode
\* ------------------------------------------------------------------------
\* a record of the source without one of its fields
Without(data, key) == [k \in DOMAIN data \ {key} |-> data[k]]

\* the tables get_all_commits returns, call after call
CallTables ==
    {EmptyTable,
     <<[name |-> RepoA, commits |-> Numbered(<<Commit1, Commit3>>)]>>,
     <<[name |-> RepoB, commits |-> Numbered(<<Commit2>>)]>>,
     <<[name |-> RepoA,
        commits |-> Numbered(<<Without(Commit1, "commit_message"),
                               Without(Commit1, "commit_diff_text")>>)],
       [name |-> RepoB,
        commits |-> Numbered(<<Without(Commit3, "commit_diff_text"),
                               Without(Commit3, "commit_message"), Commit3>>)]>>}

InitCalls ==
    /\ args \in {[x EXCEPT !.mode = m] :
                    x \in {y \in ArgsSet : /\ y.email \in {<<>>, <<S_x_com>>}
                                           /\ y.user = <<>>
                                           /\ y.keyword \in {<<>>, <<S_bug>>, <<S_bug, S_FIX>>}
                                           /\ UnionMode(y) /\ ~y.hotspot},
                    m \in {"union", "intersection", "other"}}
    /\ git_dirs = {PathDir}
    /\ source = SourceWorks
    /\ disk = "ok"
    /\ Constructed
    /\ ModalLaidOut
    /\ count_in = <<NoCall, NoCall>>
    /\ color_out = <<None, None>>

\* the first raw()
raw_calls == RawFrom(CallTables)

\* raw() after cook(): self.raw_commits is assigned anew
raw_again ==
    /\ pc = "cook"
    /\ raised = NoError
    /\ ~git_analyzer.none
    /\ raw_commits' \in CallTables
    /\ returned' = NoValue
    /\ raised' = NoError
    /\ logged' = RawLog
    /\ pc' = "raw"
    /\ UNCHANGED <<envVars, dashVars, git_analyzer, cooked_commits, hotVars, tierVars, reportVars>>

NextCalls == initialize_repo \/ raw_calls \/ raw_again \/ cook

SpecCalls == InitCalls /\ [][NextCalls]_vars

\* ------------------------------------------------------------------------
\* The dashboard on its own: any sequence of toggle_modal calls
\* ------------------------------------------------------------------------
InitModal ==
    /\ args \in {x \in ArgsSet : NoFilters(x) /\ UnionMode(x) /\ ~x.hotspot}
    /\ git_dirs = {PathDir}
    /\ source = SourceWorks
    /\ disk = "ok"
    /\ Constructed
    /\ ModalLaidOut
    /\ count_in = <<NoCall, NoCall>>
    /\ color_out = <<None, None>>

\* one call of the callback: the trigger, and the values the inputs and
\* the table have at that moment; the state is_open is the modal's own
toggle_modal ==
    \E trigger \in {"none", "close-modal", "close-modal-x", "json-data-table"} :
    \E cell \in {[none |-> TRUE, column_id |-> "", row |-> 0]}
                \cup [none : {FALSE}, column_id : {"ai_summary", "summary"},
                      row : 0..MaxRow] :
    \E data \in TableDatas :
        LET out == ToggleModal(trigger, cell, is_open, data) IN
        /\ is_open' = out.is_open
        /\ modal_content' = out.content
        /\ modal_title' = out.title
        /\ last_event' = [trigger |-> trigger, active_cell |-> cell, table_data |-> data]
        /\ UNCHANGED <<envVars, git_analyzer, raw_commits, cooked_commits, hotVars,
                       tierVars, reportVars, pc, returned, raised, logged>>

NextModal == toggle_modal

SpecModal == InitModal /\ [][NextModal]_vars

\* ------------------------------------------------------------------------
\* Properties of cook()
\* ------------------------------------------------------------------------
\* cook() has just returned
AfterCook == pc = "cook"

\* the hashes of a commit mapping, in order
Hashes(dict) == [i \in 1..Len(dict) |-> dict[i].hash]

\* the commit hash is a key of cooked_commits[name]
InCooked(name, hash) ==
    /\ TableHas(cooked_commits, name)
    /\ \E j \in 1..Len(TableGet(cooked_commits, name)) :
          TableGet(cooked_commits, name)[j].hash = hash

\* some criterion list is non-empty
SomeCriterion == Len(args.email) > 0 \/ Len(args.user) > 0 \/ Len(args.keyword) > 0

\* message + diff_text, lower-cased; an absent field counts as ""
LoweredText(d) ==
    Lower((IF "commit_message" \in DOMAIN d THEN d.commit_message ELSE <<>>)
          \o (IF "commit_diff_text" \in DOMAIN d THEN d.commit_diff_text ELSE <<>>))

\* s is a contiguous part of t
IsSubstring(s, t) ==
    \E from \in 1..(Len(t) + 1) : \E to \in (from - 1)..Len(t) :
        [k \in 1..(to - from + 1) |-> t[from + k - 1]] = s

\* the scenario of the specification: repoA with h1 (a@x.com, "fix bug")
\* and h2 (b@x.com, "refactor"), emails = [a@x.com], keywords = [bug]
ScenarioTable ==
    <<[name |-> RepoA,
       commits |-> <<[hash |-> Hash(1), data |-> Commit1],
                     [hash |-> Hash(2), data |-> Commit2]>>]>>
ScenarioArgs ==
    /\ args.email = <<S_a_x_com>>
    /\ args.user = <<>>
    /\ args.keyword = <<S_bug>>

\* (a) author_email equals an element of emails
AnyEmailEqual(d) == \E i \in 1..Len(args.email) : args.email[i] = d.commit_email
\* (b) author_name equals an element of usernames
AnyUserEqual(d) == \E i \in 1..Len(args.user) : args.user[i] = d.commit_author
\* (c) some lower-cased keyword is part of the lower-cased text
AnyKeywordInText(d) ==
    \E i \in 1..Len(args.keyword) : IsSubstring(Lower(args.keyword[i]), LoweredText(d))

\* C1: in union mode with some non-empty criterion list, a commit of the raw
\* table is in the cooked table exactly when its email equals an element of
\* emails, or its author name equals an element of usernames, or some
\* keyword is, case-insensitively, part of message + diff_text; in the
\* scenario the cooked table holds h1 only.
C1_UnionMatchesAny ==
    (AfterCook /\ args.mode = "union" /\ SomeCriterion) =>
        /\ \A r \in 1..Len(raw_commits) : \A i \in 1..Len(raw_commits[r].commits) :
              LET c == raw_commits[r].commits[i] IN
              InCooked(raw_commits[r].name, c.hash) <=>
                  (AnyEmailEqual(c.data) \/ AnyUserEqual(c.data) \/ AnyKeywordInText(c.data))
        /\ (raw_commits = ScenarioTable /\ ScenarioArgs) =>
              cooked_commits =
                  <<[name |-> RepoA, commits |-> <<[hash |-> Hash(1), data |-> Commit1]>>]>>

\* the scenario has been cooked in union mode, and h2 was dropped
C1_Witness ==
    /\ pc = "cook"
    /\ args.mode = "union"
    /\ ScenarioArgs
    /\ raw_commits = ScenarioTable
    /\ InCooked(RepoA, Hash(1))
    /\ ~InCooked(RepoA, Hash(2))

\* every element of emails / usernames is part of the author email / name
AllEmailsInside(d) == \A i \in 1..Len(args.email) : IsSubstring(args.email[i], d.commit_email)
AllUsersInside(d) == \A i \in 1..Len(args.user) : IsSubstring(args.user[i], d.commit_author)
\* every lower-cased keyword is part of the lower-cased text
AllKeywordsInText(d) ==
    \A i \in 1..Len(args.keyword) : IsSubstring(Lower(args.keyword[i]), LoweredText(d))

\* C2: in intersection mode with some non-empty criterion list, a commit of
\* the raw table is in the cooked table exactly when every email is part of
\* its author email, every username is part of its author name and every
\* keyword is, case-insensitively, part of message + diff_text; an empty
\* list constrains nothing.
C2_IntersectionMatchesAll ==
    (AfterCook /\ args.mode = "intersection" /\ SomeCriterion) =>
        \A r \in 1..Len(raw_commits) : \A i \in 1..Len(raw_commits[r].commits) :
            LET c == raw_commits[r].commits[i] IN
            InCooked(raw_commits[r].name, c.hash) <=>
                (AllEmailsInside(c.data) /\ AllUsersInside(c.data) /\ AllKeywordsInText(c.data))

\* intersection mode kept a commit whose email only contains the criterion
\* "x.com", and dropped another commit for a keyword
C2_Witness ==
    /\ pc = "cook"
    /\ args.mode = "intersection"
    /\ args.email = <<S_x_com>>
    /\ Len(args.keyword) > 0
    /\ \E r \in 1..Len(raw_commits) : \E i, j \in 1..Len(raw_commits[r].commits) :
          /\ raw_commits[r].commits[i].data.commit_email # S_x_com
          /\ InCooked(raw_commits[r].name, raw_commits[r].commits[i].hash)
          /\ ~InCooked(raw_commits[r].name, raw_commits[r].commits[j].hash)

\* C3: with emails, usernames and keywords all empty, every repository of
\* the raw table has a cooked entry with exactly the raw commits, in union
\* mode and in intersection mode.
C3_NoCriteriaPassesAll ==
    (AfterCook /\ ~SomeCriterion) =>
        \A r \in 1..Len(raw_commits) :
            /\ TableHas(cooked_commits, raw_commits[r].name)
            /\ TableGet(cooked_commits, raw_commits[r].name) = raw_commits[r].commits

\* union mode without criteria has copied two repositories with commits
C3_Witness ==
    /\ pc = "cook"
    /\ ~SomeCriterion
    /\ args.mode = "union"
    /\ Len(raw_commits) = 2
    /\ Len(raw_commits[1].commits) = MaxCommits
    /\ Len(raw_commits[2].commits) > 0
    /\ cooked_commits = raw_commits

\* C4: with the same criteria, not all empty, every commit that intersection
\* mode puts in the cooked table is put there by union mode too.
C4_UnionIncludesIntersection ==
    (AfterCook /\ args.mode = "intersection" /\ SomeCriterion) =>
        LET viaUnion == Cook(raw_commits, EmptyTable, [args EXCEPT !.mode = "union"]) IN
        \A r \in 1..Len(cooked_commits) : \A j \in 1..Len(cooked_commits[r].commits) :
            /\ TableHas(viaUnion, cooked_commits[r].name)
            /\ \E k \in 1..Len(TableGet(viaUnion, cooked_commits[r].name)) :
                  TableGet(viaUnion, cooked_commits[r].name)[k].hash
                      = cooked_commits[r].commits[j].hash

\* C5: cook applied to the table cook produced, with the same arguments,
\* gives that table again: the same repositories, hashes, order and records.
C5_CookIdempotent ==
    AfterCook => Cook(cooked_commits, EmptyTable, args) = cooked_commits

\* a filter that dropped a commit and kept two commits of one repository
C5_Witness ==
    /\ pc = "cook"
    /\ SomeCriterion
    /\ \E r \in 1..Len(cooked_commits) : Len(cooked_commits[r].commits) = 2
    /\ \E r \in 1..Len(raw_commits) :
          Len(TableGet(cooked_commits, raw_commits[r].name)) < Len(raw_commits[r].commits)

\* s is t with some elements left out, the rest in t's order
IsSubsequence(s, t) ==
    \E f \in [1..Len(s) -> 1..Len(t)] :
        /\ \A i, j \in 1..Len(s) : i < j => f[i] < f[j]
        /\ \A i \in 1..Len(s) : t[f[i]] = s[i]

\* C6: for every repository of the cooked table, its hash sequence is a
\* subsequence of the hash sequence of the same repository in the raw table.
C6_OrderPreserved ==
    AfterCook =>
        \A r \in 1..Len(cooked_commits) :
            /\ TableHas(raw_commits, cooked_commits[r].name)
            /\ IsSubsequence(Hashes(cooked_commits[r].commits),
                             Hashes(TableGet(raw_commits, cooked_commits[r].name)))

\* a filter kept both commits of one repository and only the second commit
\* of the other
C6_Witness ==
    /\ pc = "cook"
    /\ SomeCriterion
    /\ Len(raw_commits) = 2
    /\ Len(raw_commits[1].commits) = 2
    /\ Len(raw_commits[2].commits) = 2
    /\ Hashes(TableGet(cooked_commits, RepoA)) = <<Hash(1), Hash(2)>>
    /\ Hashes(TableGet(cooked_commits, RepoB)) = <<Hash(2)>>

\* C7: after cook() on a non-empty raw table every repository of the raw
\* table is a key of the cooked table, also when none of its commits
\* survived.
C7_EveryRepoKept ==
    (AfterCook /\ Len(raw_commits) > 0) =>
        \A r \in 1..Len(raw_commits) : TableHas(cooked_commits, raw_commits[r].name)

\* a repository with commits of which none survived has an empty entry
C7_Witness ==
    /\ pc = "cook"
    /\ \E r \in 1..Len(raw_commits) :
          /\ Len(raw_commits[r].commits) > 0
          /\ TableHas(cooked_commits, raw_commits[r].name)
          /\ TableGet(cooked_commits, raw_commits[r].name) = <<>>

\* ------------------------------------------------------------------------
\* Properties of get_color_by_count
\* ------------------------------------------------------------------------
\* the highest k in 5..1 with 6c >= k*m, or 0 when 6c < m
HighestTier(c, m) ==
    IF \E k \in 1..5 : 6 * c >= k * m
    THEN CHOOSE k \in 1..5 : 6 * c >= k * m /\ \A h \in (k + 1)..5 : 6 * c < h * m
    ELSE 0

\* C8: the tier of count c under maximum m >= 1 is the highest k in 5..1
\* with 6c >= k*m, and the path is left out when 6c < m; with m = 12 count
\* 10 is tier 5, count 9 tier 4 and count 1 left out; with m = 2 count 2 is
\* tier 5 and count 1 tier 3.
C8_TierBySixths ==
    pc = "color" =>
        \A i \in 1..2 :
            LET c == count_in[i].count
                m == count_in[i].max_count
                t == TierOf(color_out[i])
            IN  /\ t = HighestTier(c, m)
                /\ (6 * c < m) <=> (color_out[i] = None)
                /\ (m = 12 /\ c = 10) => t = 5
                /\ (m = 12 /\ c = 9) => t = 4
                /\ (m = 12 /\ c = 1) => color_out[i] = None
                /\ (m = 2 /\ c = 2) => t = 5
                /\ (m = 2 /\ c = 1) => t = 3

\* max 12: count 10 was coloured as tier 5 and count 1 was left out
C8_Witness ==
    /\ pc = "color"
    /\ count_in = <<[count |-> 10, max_count |-> 12], [count |-> 1, max_count |-> 12]>>
    /\ color_out = <<Purple, None>>

\* C9: of two paths of one run, the one with the larger count has a tier at
\* least as high; a path that is left out ranks below tier 1.
C9_TierMonotone ==
    (pc = "color" /\ count_in[1].count > count_in[2].count) =>
        TierOf(color_out[1]) >= TierOf(color_out[2])

\* two counts of one run that ended in tiers 5 and 4
C9_Witness ==
    /\ pc = "color"
    /\ count_in[1].count > count_in[2].count
    /\ TierOf(color_out[1]) = 5
    /\ TierOf(color_out[2]) = 4

\* ------------------------------------------------------------------------
\* Properties of hotspot()
\* ------------------------------------------------------------------------
\* the places <<repository, commit, file>> of the cooked table where path is
Occurrences(table, path) ==
    UNION {UNION {{<<r, i, j>> :
                    j \in {k \in 1..Len(table[r].commits[i].data.commit_changed_files) :
                             table[r].commits[i].data.commit_changed_files[k] = path}} :
                  i \in 1..Len(table[r].commits)} :
           r \in 1..Len(table)}

\* every path of the cooked table
ChangedPaths(table) ==
    UNION {UNION {{table[r].commits[i].data.commit_changed_files[j] :
                    j \in 1..Len(table[r].commits[i].data.commit_changed_files)} :
                  i \in 1..Len(table[r].commits)} :
           r \in 1..Len(table)}

\* the first repository, in table order, in which path occurs
FirstRepo(table, path) ==
    table[CHOOSE r \in 1..Len(table) :
            /\ \E o \in Occurrences(table, path) : o[1] = r
            /\ \A o \in Occurrences(table, path) : o[1] >= r].name

\* C10: hotspot() has one counter per path of the cooked table, equal to the
\* number of occurrences of the path in changed_files over all commits of
\* all repositories, and the owner of a path is the first repository, in
\* table order, in which the path occurs.
C10_CountsAndFirstOwner ==
    (pc = "hotspot" /\ args.hotspot) =>
        /\ {hotspots[i].path : i \in 1..Len(hotspots)} = ChangedPaths(cooked_commits)
        /\ {file_repos[i].path : i \in 1..Len(file_repos)} = ChangedPaths(cooked_commits)
        /\ \A i, j \in 1..Len(hotspots) : hotspots[i].path = hotspots[j].path => i = j
        /\ \A i, j \in 1..Len(file_repos) : file_repos[i].path = file_repos[j].path => i = j
        /\ \A i \in 1..Len(hotspots) :
              hotspots[i].count = Cardinality(Occurrences(cooked_commits, hotspots[i].path))
        /\ \A i \in 1..Len(file_repos) :
              file_repos[i].repo = FirstRepo(cooked_commits, file_repos[i].path)

\* src/a.py was changed in repoA and later in repoB: it is counted across
\* both repositories and owned by repoA
C10_Witness ==
    /\ pc = "hotspot"
    /\ args.hotspot
    /\ \E o \in Occurrences(cooked_commits, S_src_a_py) : o[1] = 1
    /\ \E o \in Occurrences(cooked_commits, S_src_a_py) : o[1] = 2
    /\ \E i \in 1..Len(hotspots) :
          hotspots[i].path = S_src_a_py /\ hotspots[i].count >= 3
    /\ \E i \in 1..Len(file_repos) :
          file_repos[i].path = S_src_a_py /\ file_repos[i].repo = RepoA

\* ------------------------------------------------------------------------
\* Properties of the hotspot ranking
\* ------------------------------------------------------------------------
\* hotspot() has run with args.hotspot on
AfterHotspot == pc = "hotspot" /\ args.hotspot

\* the largest counter, 0 without counters
LargestCount ==
    IF Len(hotspots) = 0 THEN 0
    ELSE CHOOSE m \in {hotspots[i].count : i \in 1..Len(hotspots)} :
            \A i \in 1..Len(hotspots) : hotspots[i].count <= m

\* the counted paths that get a tier: 6 * count >= max
TieredPaths ==
    {hotspots[i].path : i \in {k \in 1..Len(hotspots) : 6 * hotspots[k].count >= LargestCount}}

\* the counter of a path
CountOfPath(path) ==
    hotspots[CHOOSE i \in 1..Len(hotspots) : hotspots[i].path = path].count

\* the part of the path in front of its first "/", or "root" without "/"
FirstSegment(path) ==
    IF \A i \in 1..Len(path) : path[i] # "/"
    THEN <<"r", "o", "o", "t">>
    ELSE CHOOSE seg \in {SubSeq(path, 1, n) : n \in 0..Len(path)} :
            /\ Len(seg) < Len(path)
            /\ path[Len(seg) + 1] = "/"
            /\ \A i \in 1..Len(seg) : seg[i] # "/"

\* the recorded owner of a path
RecordedOwner(path) ==
    file_repos[CHOOSE i \in 1..Len(file_repos) : file_repos[i].path = path].repo

\* the group key a path belongs under
GroupKeyOf(path) == RecordedOwner(path) \o <<"/">> \o FirstSegment(path)

\* the places <<group, position>> of a path in dir_files
PlacesOf(path) ==
    UNION {{<<g, j>> : j \in {k \in 1..Len(dir_files[g].files) :
                                dir_files[g].files[k].path = path}} :
           g \in 1..Len(dir_files)}

\* s comes before t in lexicographic (code point) order
LexBefore(s, t) ==
    \/ Len(s) < Len(t) /\ \A i \in 1..Len(s) : s[i] = t[i]
    \/ \E k \in 1..Len(s) :
          /\ k <= Len(t)
          /\ \A i \in 1..(k - 1) : s[i] = t[i]
          /\ Ord[s[k]] < Ord[t[k]]

\* a row of dashes
IsSeparator(row) == Len(row.file) > 0 /\ \A i \in 1..Len(row.file) : row.file[i] = "-"

\* a cell without its colour codes
Uncolored(cell) == SubSeq(cell, 2, Len(cell) - 1)

\* the rows that carry a group key, and the keys, in the order emitted
KeyRows == SelectSeq(table_rows, LAMBDA row : ~IsSeparator(row) /\ row.dir # <<>>)
EmittedKeys == [i \in 1..Len(KeyRows) |-> Uncolored(KeyRows[i].dir)]

\* the file rows, and their paths, in the order emitted
DataRows == SelectSeq(table_rows, LAMBDA row : ~IsSeparator(row))
EmittedPaths == [i \in 1..Len(DataRows) |-> Uncolored(DataRows[i].file)]

S_repoA_docs == RepoA \o <<"/">> \o <<"d", "o", "c", "s">>
S_repoA_src == RepoA \o <<"/">> \o <<"s", "r", "c">>

\* C11: every tiered path is in exactly one group, the one keyed
\* "<owner>/<first path segment>" ("<owner>/root" without "/"), and no other
\* path is in a group; the groups are emitted in lexicographic order of
\* their keys; inside a group the counts do not increase.  With src/a.py
\* counted 2 and docs/readme.md counted 1 in repoA, repoA/docs comes before
\* repoA/src.
C11_GroupsByOwnerAndDirectory ==
    AfterHotspot =>
        /\ \A p \in TieredPaths :
              /\ Cardinality(PlacesOf(p)) = 1
              /\ \A pl \in PlacesOf(p) : dir_files[pl[1]].key = GroupKeyOf(p)
        /\ \A g \in 1..Len(dir_files) : \A j \in 1..Len(dir_files[g].files) :
              /\ dir_files[g].files[j].path \in TieredPaths
              /\ dir_files[g].files[j].count = CountOfPath(dir_files[g].files[j].path)
        /\ \A g, h \in 1..Len(dir_files) : dir_files[g].key = dir_files[h].key => g = h
        /\ {EmittedKeys[i] : i \in 1..Len(EmittedKeys)}
              = {dir_files[g].key : g \in 1..Len(dir_files)}
        /\ \A i \in 1..(Len(EmittedKeys) - 1) : LexBefore(EmittedKeys[i], EmittedKeys[i + 1])
        /\ \A g \in 1..Len(dir_files) : \A j \in 1..(Len(dir_files[g].files) - 1) :
              dir_files[g].files[j].count >= dir_files[g].files[j + 1].count
        /\ \A i \in 1..(Len(DataRows) - 1) :
              (DataRows[i + 1].dir = <<>>) =>
                  CountOfPath(EmittedPaths[i]) >= CountOfPath(EmittedPaths[i + 1])
        /\ (/\ Len(hotspots) = 2
            /\ \E i \in 1..2 : hotspots[i] = [path |-> S_src_a_py, count |-> 2]
            /\ \E i \in 1..2 : hotspots[i] = [path |-> S_docs_readme_md, count |-> 1]
            /\ RecordedOwner(S_src_a_py) = RepoA
            /\ RecordedOwner(S_docs_readme_md) = RepoA)
           => EmittedKeys = <<S_repoA_docs, S_repoA_src>>

\* src/a.py counted 2 and docs/readme.md counted 1, both owned by repoA, were
\* grouped and emitted as repoA/docs, repoA/src
C11_Witness ==
    /\ AfterHotspot
    /\ Len(hotspots) = 2
    /\ \E i \in 1..2 : hotspots[i] = [path |-> S_src_a_py, count |-> 2]
    /\ \E i \in 1..2 : hotspots[i] = [path |-> S_docs_readme_md, count |-> 1]
    /\ RecordedOwner(S_docs_readme_md) = RepoA
    /\ EmittedKeys = <<S_repoA_docs, S_repoA_src>>

\* the number of files in the groups g..Len(dir_files)
RECURSIVE FilesInGroupsFrom(_)
FilesInGroupsFrom(g) ==
    IF g > Len(dir_files) THEN 0
    ELSE Len(dir_files[g].files) + FilesInGroupsFrom(g + 1)

\* C12: in the rows of the table a file row carries the group key exactly
\* when it is the first row of its group, that is the first row of all or
\* the row behind a separator; with G >= 1 groups and F tiered paths there
\* are F file rows and G - 1 separator rows, and neither the first nor the
\* last row is a separator.
C12_KeyOnFirstRowSeparatorsBetween ==
    (AfterHotspot /\ Len(dir_files) >= 1) =>
        LET F == Cardinality(TieredPaths)
            G == Len(dir_files)
            seps == {i \in 1..Len(table_rows) : IsSeparator(table_rows[i])}
        IN  /\ F = FilesInGroupsFrom(1)
            /\ Len(DataRows) = F
            /\ Cardinality(seps) = G - 1
            /\ Len(table_rows) = F + G - 1
            /\ 1 \notin seps
            /\ Len(table_rows) \notin seps
            /\ \A i \in seps : (i + 1) \notin seps
            /\ \A i \in 1..Len(table_rows) :
                  ~IsSeparator(table_rows[i]) =>
                      ((table_rows[i].dir # <<>>) <=> (i = 1 \/ (i - 1) \in seps))
            /\ Len(KeyRows) = G

\* two groups, the first of them with two files, and a counted path without
\* tier: three file rows and one separator
C12_Witness ==
    /\ AfterHotspot
    /\ Len(dir_files) = 2
    /\ Len(dir_files[1].files) = 2
    /\ Cardinality(TieredPaths) < Len(hotspots)
    /\ Len(table_rows) = 4
    /\ table_rows[2].dir = <<>>
    /\ IsSeparator(table_rows[3])

\* C13: when the cooked table has no changed file, so that no path gets a
\* tier, hotspot() logs "No matching files found in hotspot analysis" and
\* returns without a table: no rows, no table logged.
C13_NoFilesNoTable ==
    (AfterHotspot /\ ChangedPaths(cooked_commits) = {}) =>
        /\ <<"info", "No matching files found in hotspot analysis">> \in logged
        /\ table_rows = <<>>
        /\ dir_files = <<>>
        /\ \A e \in logged : e[2] # "table"

\* the raw table had changed files, no commit survived the filter, and
\* hotspot() reported that no file matched
C13_Witness ==
    /\ AfterHotspot
    /\ Len(cooked_commits) > 0
    /\ \A r \in 1..Len(cooked_commits) : cooked_commits[r].commits = <<>>
    /\ ChangedPaths(raw_commits) # {}
    /\ <<"info", "No matching files found in hotspot analysis">> \in logged
    /\ table_rows = <<>>

\* ------------------------------------------------------------------------
\* Properties of the collector
\* ------------------------------------------------------------------------
\* initialize_repo() has something to hand to the Repository Source
SomeValidRepository == IF args.recursive THEN git_dirs # {} ELSE PathDir \in git_dirs

\* C19: when the Repository Source raises, at construction or in
\* get_all_commits(), no exception leaves initialize_repo() or raw(); the
\* error of the constructor is logged by initialize_repo(), and raw() ends
\* with an empty raw table.
C19_SourceErrorStaysInCollector ==
    (/\ pc \in {"initialize_repo", "raw"}
     /\ SomeValidRepository
     /\ source.init_raises \/ source.fetch_raises)
    => /\ raised = NoError
       /\ (pc = "initialize_repo" /\ source.init_raises)
             => \E e \in logged : e[1] = "error"
       /\ pc = "raw" => raw_commits = EmptyTable

\* C20: when initialize_repo() found no valid repository, or the Repository
\* Source returned an empty mapping, raw() completes without an exception
\* and raw_commits is empty.
C20_NoRepositoryEmptyTable ==
    (/\ pc = "raw"
     /\ ~source.init_raises
     /\ ~source.fetch_raises
     /\ ~SomeValidRepository \/ raw_commits = EmptyTable)
    => /\ raised = NoError
       /\ raw_commits = EmptyTable

\* ------------------------------------------------------------------------
\* Properties of generate_report()
\* ------------------------------------------------------------------------
\* generate_report() has run
AfterReport == pc = "report"

\* the calls of generate_report() that wrote a file
Written == {i \in 1..Len(reports) : reports[i].wrote}

NoCommitsWarning == <<"warning", "No processed commits available for report generation">>

\* C14: with a cooked table that has no repository entry generate_report()
\* opens and writes no file, logs a warning and returns.
C14_EmptyTableNoFile ==
    (AfterReport /\ Len(cooked_commits) = 0) =>
        /\ DOMAIN cwd_files = {}
        /\ Written = {}
        /\ NoCommitsWarning \in logged
        /\ returned = NoValue
        /\ raised = NoError

\* cook() found the raw table empty, and generate_report() was called twice
\* as the clock ran
C14_Witness ==
    /\ AfterReport
    /\ Len(cooked_commits) = 0
    /\ Len(reports) = 2
    /\ clock > 0
    /\ DOMAIN cwd_files = {}
    /\ NoCommitsWarning \in logged

\* C15: when every repository entry of the cooked table is an empty mapping
\* (no commit survived the filter), generate_report() creates no report
\* file and logs a warning.
C15_NoSurvivorNoFile ==
    (/\ AfterReport
     /\ Len(cooked_commits) > 0
     /\ \A r \in 1..Len(cooked_commits) : Len(cooked_commits[r].commits) = 0)
    => /\ DOMAIN cwd_files = {}
       /\ \E e \in logged : e[1] = "warning"

\* the names on the banners of a content, in order
BannersOf(content) ==
    LET banners == SelectSeq(content, LAMBDA w : w[1] = "Repository: ")
    IN  [i \in 1..Len(banners) |-> banners[i][2]]

\* the names of the repositories with at least one commit, in table order
NonEmptyRepos(cooked) ==
    LET kept == SelectSeq(cooked, LAMBDA e : Len(e.commits) > 0)
    IN  [i \in 1..Len(kept) |-> kept[i].name]

\* the commit blocks of a content from write i on, each as
\* <<name on the banner above it, hash>>
RECURSIVE BlocksOf(_, _, _)
BlocksOf(content, i, banner) ==
    IF i > Len(content) THEN <<>>
    ELSE IF content[i][1] = "Repository: "
    THEN BlocksOf(content, i + 1, content[i][2])
    ELSE IF content[i][1] = "Commit: "
    THEN << <<banner, content[i][2]>> >> \o BlocksOf(content, i + 1, banner)
    ELSE BlocksOf(content, i + 1, banner)

\* the commits of the repositories r.. of a table, each as <<name, hash>>
RECURSIVE CommitsOf(_, _)
CommitsOf(cooked, r) ==
    IF r > Len(cooked) THEN <<>>
    ELSE [i \in 1..Len(cooked[r].commits) |->
             <<cooked[r].name, cooked[r].commits[i].hash>>]
         \o CommitsOf(cooked, r + 1)

\* C16: a written report starts with the header, has one banner per
\* repository with at least one cooked commit, in cooked-table order, and
\* under each banner one commit block per cooked commit of that repository
\* in cooked-table order; the number of blocks is the number of cooked
\* commits.
C16_BannersAndBlocks ==
    AfterReport =>
        \A i \in Written :
            LET content == reports[i].content IN
            /\ Len(content) >= 2
            /\ content[1] = <<"# Git Patch/Diff Report">>
            /\ content[2][1] = "# Generated: "
            /\ BannersOf(content) = NonEmptyRepos(cooked_commits)
            /\ BlocksOf(content, 1, <<>>) = CommitsOf(cooked_commits, 1)
            /\ Len(SelectSeq(content, LAMBDA w : w[1] = "----"))
                  = Len(CommitsOf(cooked_commits, 1))
            /\ (i = Len(reports)) => cwd_files[reports[i].name] = content

\* repoA had commits and none survived, repoB kept two: one banner, for
\* repoB, and two blocks under it
C16_Witness ==
    /\ AfterReport
    /\ Written # {}
    /\ Len(cooked_commits) = 2
    /\ Len(cooked_commits[1].commits) = 0
    /\ Len(raw_commits[1].commits) > 0
    /\ Len(cooked_commits[2].commits) = 2
    /\ BannersOf(reports[1].content) = <<RepoB>>
    /\ Len(BlocksOf(reports[1].content, 1, <<>>)) = 2

\* C17: any two calls of generate_report() that write a file write to
\* different file names, also within one clock second.
C17_FileNamesUnique ==
    \A i, j \in Written : i # j => reports[i].name # reports[j].name

\* a content without its "Generated:" line
WithoutGenerated(content) == SelectSeq(content, LAMBDA w : w[1] # "# Generated: ")

\* C18: two calls of generate_report() on the same cooked table and
\* arguments write contents that are equal but for the one "Generated:"
\* line each has.
C18_ContentDeterministic ==
    \A i, j \in Written :
        /\ WithoutGenerated(reports[i].content) = WithoutGenerated(reports[j].content)
        /\ Len(WithoutGenerated(reports[i].content)) = Len(reports[i].content) - 1

\* two reports with commit blocks were written in different seconds: the
\* contents differ, and only in the "Generated:" line
C18_Witness ==
    /\ Written = {1, 2}
    /\ reports[1].content # reports[2].content
    /\ reports[1].name # reports[2].name
    /\ Len(CommitsOf(cooked_commits, 1)) >= 2
    /\ WithoutGenerated(reports[1].content) = WithoutGenerated(reports[2].content)

\* ------------------------------------------------------------------------
\* Properties of the stages' error handling
\* ------------------------------------------------------------------------
\* the last operation logged at warning level
WarningLogged == \E e \in logged : e[1] = "warning"

\* no commit is in the cooked table
NothingCooked == \A r \in 1..Len(cooked_commits) : Len(cooked_commits[r].commits) = 0

\* C21: a stage that ends with an empty result logs a warning and returns
\* without raising: cook() on an empty raw table, cook() when no commit
\* survives the filter, hotspot() when no file gets a tier.
C21_EmptyResultWarns ==
    /\ (pc = "cook" /\ NothingCooked) => (WarningLogged /\ raised = NoError)
    /\ (AfterHotspot /\ Len(dir_files) = 0) => (WarningLogged /\ raised = NoError)

\* C22: when no candidate directory holds a .git entry initialize_repo()
\* reports it, returns False and leaves git_analyzer unset; it returns True
\* only when GitAnalyzer was constructed.
C22_NoRepositoryReturnsFalse ==
    pc = "initialize_repo" =>
        /\ raised = NoError
        /\ ~SomeValidRepository =>
              /\ returned = PyFalse
              /\ git_analyzer = NoAnalyzer
              /\ \E e \in logged : e[1] \in {"warning", "error"}
        /\ (returned = PyTrue) <=> ~git_analyzer.none
        /\ (returned = PyTrue) => (SomeValidRepository /\ ~source.init_raises)
        /\ returned \in {PyTrue, PyFalse}

\* recursive mode found no .git below the path although the source works:
\* False, no analyzer, a warning
C22_Witness ==
    /\ pc = "initialize_repo"
    /\ args.recursive
    /\ git_dirs = {}
    /\ ~source.init_raises
    /\ returned = PyFalse
    /\ git_analyzer = NoAnalyzer
    /\ <<"warning", "No valid Git repositories found">> \in logged

\* C23: when the report file cannot be opened or written, generate_report()
\* lets the I/O error out to its caller, and the raw and the cooked table
\* are after the failed call what they were before it.
C23_ReportFailureKeepsTables ==
    [][(reports' # reports /\ disk # "ok" /\ Len(cooked_commits) > 0) =>
            /\ raised' = "IOError"
            /\ raw_commits' = raw_commits
            /\ cooked_commits' = cooked_commits
            /\ reports' = Append(reports, NoReport)]_vars

\* a write failed after the header: the error is out, the file is cut
\* short, and the tables still hold commits
C23_Witness ==
    /\ pc = "report"
    /\ disk = "write_fails"
    /\ raised = "IOError"
    /\ \E n \in DOMAIN cwd_files : Len(cwd_files[n]) = 2
    /\ ~NothingCooked
    /\ Len(raw_commits) = 2

\* ------------------------------------------------------------------------
\* Properties of the tables across the stages
\* ------------------------------------------------------------------------
\* C24: no stage changes its input: cook() leaves the raw table as it is
\* (repositories, commits, order, records), hotspot() and generate_report()
\* leave the raw and the cooked table as they are.
C24_StagesKeepInputs ==
    [][/\ pc' = "cook" => raw_commits' = raw_commits
       /\ pc' \in {"hotspot", "report"} =>
             (raw_commits' = raw_commits /\ cooked_commits' = cooked_commits)]_vars

\* cook() dropped a commit of the raw table, hotspot() counted files and
\* generate_report() wrote a file
C24_Witness ==
    /\ pc = "report"
    /\ Written # {}
    /\ Len(hotspots) > 0
    /\ ~NothingCooked
    /\ \E r \in 1..Len(raw_commits) :
          Len(cooked_commits[r].commits) < Len(raw_commits[r].commits)

\* ------------------------------------------------------------------------
\* Properties of repeated calls, of records without a field, of other modes
\* ------------------------------------------------------------------------
\* a field of a record, "" when the record lacks it
FieldOrEmpty(d, key) == IF key \in DOMAIN d THEN d[key] ELSE <<>>

\* the keywords decide for the commit: any of them in union mode, all of
\* them otherwise, searched in the given text
KeywordsAccept(text) ==
    IF args.mode = "union"
    THEN \E i \in 1..Len(args.keyword) : IsSubstring(Lower(args.keyword[i]), Lower(text))
    ELSE \A i \in 1..Len(args.keyword) : IsSubstring(Lower(args.keyword[i]), Lower(text))

\* C25: with keywords as the only criterion, in either mode, cook() does
\* not fail on a record without commit_message or without commit_diff_text,
\* and keeps it exactly when the keywords match the text of the fields it
\* has, the missing one counting as the empty string.
C25_MissingFieldIsEmpty ==
    (/\ AfterCook
     /\ args.mode \in {"union", "intersection"}
     /\ Len(args.email) = 0
     /\ Len(args.keyword) > 0)
    => /\ raised = NoError
       /\ \A r \in 1..Len(raw_commits) : \A i \in 1..Len(raw_commits[r].commits) :
             LET c == raw_commits[r].commits[i] IN
             InCooked(raw_commits[r].name, c.hash) <=>
                 KeywordsAccept(FieldOrEmpty(c.data, "commit_message")
                                \o FieldOrEmpty(c.data, "commit_diff_text"))

\* of two records that differ only in the field they lack, the one with
\* the message "fix bug" was kept and the one without message was dropped
C25_Witness ==
    /\ AfterCook
    /\ args.mode = "intersection"
    /\ args.email = <<>>
    /\ args.keyword = <<S_bug, S_FIX>>
    /\ Len(raw_commits) = 2
    /\ "commit_message" \notin DOMAIN raw_commits[1].commits[1].data
    /\ "commit_diff_text" \notin DOMAIN raw_commits[1].commits[2].data
    /\ ~InCooked(RepoA, Hash(1))
    /\ InCooked(RepoA, Hash(2))

\* C26: after any sequence of raw() and cook() calls the cooked table
\* reflects the most recent raw table only: the same repositories, and
\* every cooked commit is a commit of the raw table; nothing of an earlier
\* raw table remains.
C26_CookedFollowsLatestRaw ==
    AfterCook =>
        /\ {cooked_commits[r].name : r \in 1..Len(cooked_commits)}
              = {raw_commits[r].name : r \in 1..Len(raw_commits)}
        /\ \A r \in 1..Len(cooked_commits) : \A i \in 1..Len(cooked_commits[r].commits) :
              \E q \in 1..Len(raw_commits) :
                  /\ raw_commits[q].name = cooked_commits[r].name
                  /\ \E j \in 1..Len(raw_commits[q].commits) :
                        raw_commits[q].commits[j] = cooked_commits[r].commits[i]

\* the policy a mode stands for
PolicyOf(mode) == IF mode = "union" THEN "UNION" ELSE "INTERSECTION"

\* C29: the mode is union exactly when args.mode equals "union"; with any
\* other value, recognised or not, cook() filters by the intersection
\* criteria and does not reject the value.
C29_OtherModesIntersect ==
    (AfterCook /\ SomeCriterion /\ Len(raw_commits) > 0) =>
        /\ raised = NoError
        /\ \A r \in 1..Len(raw_commits) : \A i \in 1..Len(raw_commits[r].commits) :
              LET c == raw_commits[r].commits[i] IN
              InCooked(raw_commits[r].name, c.hash) <=>
                  IF PolicyOf(args.mode) = "UNION"
                  THEN AnyEmailEqual(c.data) \/ AnyUserEqual(c.data) \/ AnyKeywordInText(c.data)
                  ELSE AllEmailsInside(c.data) /\ AllUsersInside(c.data)
                       /\ AllKeywordsInText(c.data)
        /\ \E e \in logged :
              e[2] = (IF PolicyOf(args.mode) = "UNION"
                      THEN "[Search Mode] Using Union Mode"
                      ELSE "[Search Mode] Using Intersection Mode")

\* with an unrecognised mode and the keywords bug and FIX the commit with
\* both was kept and the commit with "bug" alone was dropped
C29_Witness ==
    /\ AfterCook
    /\ args.mode = "other"
    /\ args.keyword = <<S_bug, S_FIX>>
    /\ args.email = <<>>
    /\ Len(raw_commits) = 1
    /\ raw_commits[1].commits = Numbered(<<Commit1, Commit3>>)
    /\ InCooked(RepoA, Hash(1))
    /\ ~InCooked(RepoA, Hash(2))

\* ------------------------------------------------------------------------
\* Properties of the cooked records and of the top of the ranking
\* ------------------------------------------------------------------------
\* C27: cook() neither invents nor alters a commit: every repository and
\* hash of the cooked table is in the raw table under the same repository,
\* and the cooked record equals the raw record in every field.
C27_CookedRecordsAreRaw ==
    AfterCook =>
        \A r \in 1..Len(cooked_commits) : \A i \in 1..Len(cooked_commits[r].commits) :
            \E q \in 1..Len(raw_commits) :
                /\ raw_commits[q].name = cooked_commits[r].name
                /\ \E j \in 1..Len(raw_commits[q].commits) :
                      /\ raw_commits[q].commits[j].hash = cooked_commits[r].commits[i].hash
                      /\ \A f \in DOMAIN raw_commits[q].commits[j].data
                                  \cup DOMAIN cooked_commits[r].commits[i].data :
                            /\ f \in DOMAIN raw_commits[q].commits[j].data
                            /\ f \in DOMAIN cooked_commits[r].commits[i].data
                            /\ raw_commits[q].commits[j].data[f]
                                  = cooked_commits[r].commits[i].data[f]

\* a filter kept a commit that has a diff text and dropped another one
C27_Witness ==
    /\ AfterCook
    /\ SomeCriterion
    /\ \E r \in 1..Len(cooked_commits) :
          /\ Len(cooked_commits[r].commits) = 1
          /\ cooked_commits[r].commits[1].data = Commit3
          /\ Len(raw_commits[r].commits) = 2

\* C28: when the cooked table has a changed file, hotspot() (enabled)
\* emits rows: every path whose count is the largest count has the colour
\* of tier 5 and a row, and "No matching files" is not logged.
C28_TopPathsAlwaysEmitted ==
    AfterHotspot =>
        /\ ChangedPaths(cooked_commits) # {} =>
              /\ Len(table_rows) > 0
              /\ \A e \in logged : e[2] # "No matching files found in hotspot analysis"
              /\ \A h \in 1..Len(hotspots) :
                    hotspots[h].count = LargestCount =>
                        \E i \in 1..Len(DataRows) :
                            /\ EmittedPaths[i] = hotspots[h].path
                            /\ DataRows[i].file[1] = Purple
                            /\ DataRows[i].changes[1] = Purple
        /\ (\E e \in logged : e[2] = "No matching files found in hotspot analysis")
              => ChangedPaths(cooked_commits) = {}

\* the path with the largest count has a row in the colour of tier 5,
\* another path a row in a lower tier, a third one is too rare for a tier
C28_Witness ==
    /\ AfterHotspot
    /\ Cardinality(TieredPaths) < Len(hotspots)
    /\ Len(DataRows) = Cardinality(TieredPaths)
    /\ \E i, j \in 1..Len(DataRows) :
          /\ CountOfPath(EmittedPaths[i]) = LargestCount
          /\ DataRows[i].file[1] = Purple
          /\ DataRows[j].file[1] = Yellow

\* ------------------------------------------------------------------------
\* Properties of the detail modal
\* ------------------------------------------------------------------------
\* the event is a click on one of the two close controls
CloseClick(ev) == ev.trigger \in {"close-modal", "close-modal-x"}

\* the event is a click on a cell of the ai_summary column whose row index
\* is inside the table data
ValidSummaryClick(ev) ==
    /\ ev.trigger = "json-data-table"
    /\ ~ev.active_cell.none
    /\ ev.active_cell.column_id = "ai_summary"
    /\ ev.active_cell.row >= 0
    /\ ev.active_cell.row < Len(ev.table_data)

\* the clicked row of the event
ClickedRow(ev) == ev.table_data[ev.active_cell.row + 1]

\* C30: toggle_modal is a state machine over is_open: a click on either
\* close control gives closed, a call without trigger gives closed, a click
\* on an ai_summary cell with a row index inside the table data gives open
\* with the content and title of that row, every other event leaves is_open
\* as it was; hence the modal is open only if the latest event that was not
\* of the last kind was a valid ai_summary click.
C30_ModalStateMachine ==
    [][LET ev == last_event' IN
       /\ CloseClick(ev) => ~is_open'
       /\ ev.trigger = "none" => ~is_open'
       /\ ValidSummaryClick(ev) =>
             /\ is_open'
             /\ modal_title' = <<FieldOrEmpty(ClickedRow(ev), "repo_name"),
                                 ClickedRow(ev).commit_hash>>
                \/ /\ "repo_name" \notin DOMAIN ClickedRow(ev)
                   /\ modal_title' = <<S_Unknown, ClickedRow(ev).commit_hash>>
             /\ modal_content'[7] = ClickedRow(ev).full_ai_summary
                \/ /\ \A i \in 1..Len(ClickedRow(ev).full_ai_summary) :
                         ClickedRow(ev).full_ai_summary[i] = " "
                   /\ modal_content'[7] = <<"Analysis Not Available">>
       /\ (~CloseClick(ev) /\ ev.trigger # "none" /\ ~ValidSummaryClick(ev))
             => is_open' = is_open
       /\ is_open' =>
             \/ ValidSummaryClick(ev)
             \/ is_open /\ ~CloseClick(ev) /\ ev.trigger # "none"]_vars

\* the modal was open when a cell outside the ai_summary column was
\* clicked, and it is still open
C30_Witness ==
    /\ is_open
    /\ last_event.trigger = "json-data-table"
    /\ last_event.active_cell.column_id = "summary"
    /\ modal_content = <<>>

====
